---- MODULE Spec2Model ----
(***************************************************************************)
(* Engrama: the dual-store memory engine (QdrantStore over a relational    *)
(* metadata store), the channel model (tenants, projects, API keys) and    *)
(* the request routes that resolve a scope and call the engine, and the    *)
(* middleware chain in front of them (authentication, rate limiter).       *)
(*                                                                         *)
(* Tables are sets of rows.  A worker serves one request at a time and     *)
(* takes one step per access to a shared store (one SQL statement or       *)
(* transaction, one call of the vector index), so that requests of         *)
(* different workers interleave between those accesses.                    *)
(***************************************************************************)
EXTENDS Integers, Sequences, FiniteSets, TLC

\* ---------------------------------------------------------------- bounds
\* Fragment ids that can be drawn when requests are served one at a time.
MaxFrags == 2
\* Fragment ids that can be drawn when two workers interleave.
MaxFragsSmall == 1
\* The last reading of the clock.
MaxClock == 1
\* The hit count at which counting stops.
MaxHit == 1
\* Tenants, projects and secrets that can be created.
MaxTenants == 1
MaxProjects == 2
MaxKeys == 2
\* The largest configured rate limit, and the half windows that can pass.
MaxRpm == 1
MaxTicks == 2
\* The decisions the limiter takes for one identity: when every kind of
\* request is sent, and when few kinds are.
MaxChecksSmall == 2
MaxChecks == 3

\* Python None / SQL NULL, for optional strings.
None == "None"

Workers == {"w1", "w2"}
FragIds == 1..MaxFrags

VARIABLES
    tenants,      \* table tenants: rows [id]
    projects,     \* table projects: rows [id, tenant_id]
    api_keys,     \* table api_keys: rows [key_id, key_hash, tenant_id, project_id, user_id, is_active]
    issued,       \* the secrets generate has returned to callers, with their scope
    nextTenant,   \* number of tenant ids drawn so far
    nextProject,  \* number of project ids drawn so far
    meta,         \* table memory_fragments: rows of the metadata store
    vec,          \* the vector collection: points [id, vector, payload]
    usedIds,      \* fragment ids drawn so far (uuid4 never repeats)
    clock,        \* wall clock read by _now()
    op,           \* per worker: the request in progress, its position and its locals
    vector_store, \* ChannelManager._vector_store has been constructed
    config,       \* engrama.config: ADMIN_TOKEN, RATE_LIMIT_PER_MINUTE, REDIS_URL
    time,         \* time.time(), in seconds
    windows,      \* _InMemoryRateLimiter._windows: client_id -> list of timestamps
    redis,        \* the sorted sets rate_limit:<client_id>: client_id -> members
    history       \* per client_id, the limiter's decisions so far: [t, via, ok]

vars == <<tenants, projects, api_keys, issued, nextTenant, nextProject,
          meta, vec, usedIds, clock, op,
          vector_store, config, time, windows, redis, history>>
chanVars == <<tenants, projects, api_keys, issued, nextTenant, nextProject>>
memVars == <<meta, vec, usedIds, clock>>
gateVars == <<config, time, windows, redis, history>>

\* ------------------------------------------------------------ pure helpers

\* Python truthiness of an optional string: None and "" are falsy.
Truthy(x) == x /= None /\ x /= ""

\* SHA-256 of a secret: injective, and never equal to the secret itself.
hash_key(key) == <<"sha256", key>>

\* The first 12 characters of the secret; a secret is <<prefix, rest>>.
extract_key_id(key) == key[1]

\* The embedding of a text: a direction per text.
encode(text) == IF text = "a" THEN <<1, 0>> ELSE <<0, 1>>

\* Cosine similarity of two unit vectors.
score(q, v) == q[1] * v[1] + q[2] * v[2]

Idle == [pc |-> "idle"]

ScopeOf(r) == <<r.tenant_id, r.project_id, r.user_id>>

Row(id) == {r \in meta : r.id = id}
Point(id) == {p \in vec : p.id = id}

\* The elements of the finite set S of rows as a sequence, ascending in the
\* integer key k[x], ties by id ascending (the order of a stable sort applied
\* to rows that arrive in id order).
RECURSIVE SortedBy(_, _)
SortedBy(S, k) ==
    IF S = {} THEN <<>>
    ELSE LET m == CHOOSE x \in S : \A y \in S :
                      k[x] < k[y] \/ (k[x] = k[y] /\ x.id <= y.id)
         IN <<m>> \o SortedBy(S \ {m}, k)

Take(s, n) == SubSeq(s, 1, IF n < Len(s) THEN n ELSE Len(s))
Range(s) == {s[i] : i \in 1..Len(s)}

\* ------------------------------------------------- metadata store: reads

get_tenant(tenant_id) == {t \in tenants : t.id = tenant_id}
get_project(project_id) == {p \in projects : p.id = project_id}
list_projects(tenant_id) == {p \in projects : p.tenant_id = tenant_id}

\* A variant whose SELECT leaves out the is_active condition.
verify_api_key_AnyRow(key) ==
    LET rows == {k \in api_keys : k.key_hash = hash_key(key)}
    IN IF rows = {} THEN {} ELSE {CHOOSE k \in rows : TRUE}

\* SELECT ... WHERE key_hash = %s AND is_active = 1; fetchone.
verify_api_key(key) ==
    LET rows == {k \in api_keys : k.key_hash = hash_key(key) /\ k.is_active}
    IN IF rows = {} THEN {} ELSE {CHOOSE k \in rows : TRUE}

get_memory_fragment(fragment_id) == Row(fragment_id)
get_memory_fragments(fragment_ids) == {r \in meta : r.id \in fragment_ids}

\* COUNT(*) and COUNT(*) GROUP BY memory_type over the rows of a scope.
get_user_stats(tenant_id, project_id, user_id) ==
    LET rows == {r \in meta : ScopeOf(r) = <<tenant_id, project_id, user_id>>}
    IN [total |-> Cardinality(rows),
        by_type |-> [t \in {r.memory_type : r \in rows} |->
                        Cardinality({r \in rows : r.memory_type = t})]]

\* --------------------------------------------------- admission and routes

\* A variant that lets a passed user id override the bound one.
resolve_user_id_PassedWins(bound_user_id, request_user_id) ==
    IF Truthy(request_user_id)
    THEN [status |-> 200, user_id |-> request_user_id]
    ELSE IF Truthy(bound_user_id)
         THEN [status |-> 200, user_id |-> bound_user_id]
         ELSE [status |-> 400, user_id |-> None]

\* A variant that accepts an empty user id for a key without a bound user.
resolve_user_id_EmptyAccepted(bound_user_id, request_user_id) ==
    IF Truthy(bound_user_id)
    THEN IF Truthy(request_user_id) /\ request_user_id /= bound_user_id
         THEN [status |-> 403, user_id |-> None]
         ELSE [status |-> 200, user_id |-> bound_user_id]
    ELSE IF request_user_id = None
         THEN [status |-> 400, user_id |-> None]
         ELSE [status |-> 200, user_id |-> request_user_id]

\* The effective user of a memory request, or the status that rejects it.
resolve_user_id(bound_user_id, request_user_id) ==
    IF Truthy(bound_user_id)
    THEN IF Truthy(request_user_id) /\ request_user_id /= bound_user_id
         THEN [status |-> 403, user_id |-> None]
         ELSE [status |-> 200, user_id |-> bound_user_id]
    ELSE IF ~Truthy(request_user_id)
         THEN [status |-> 400, user_id |-> None]
         ELSE [status |-> 200, user_id |-> request_user_id]

\* The API-key gate: what it attaches to the request, or 401.
check_api_key(key) ==
    LET ks == verify_api_key(key)
    IN IF ks = {}
       THEN [status |-> 401, bound |-> None]
       ELSE LET k == CHOOSE x \in ks : TRUE
            IN [status |-> 200, tenant_id |-> k.tenant_id,
                project_id |-> k.project_id, bound |-> k.user_id]

\* The worker's record when a memory route has run the gate and the scope
\* resolution: positioned at the first engine step, or answered.
Routed(kind, pc0, key, passed, args) ==
    LET a == check_api_key(key)
        r == resolve_user_id(a.bound, passed)
    IN IF a.status /= 200
       THEN [pc |-> "done", kind |-> kind, status |-> a.status,
             bound |-> a.bound, passed |-> passed]
       ELSE IF r.status /= 200
       THEN [pc |-> "done", kind |-> kind, status |-> r.status,
             bound |-> a.bound, passed |-> passed]
       ELSE [pc |-> pc0, kind |-> kind, status |-> 0,
             bound |-> a.bound, passed |-> passed,
             tenant_id |-> a.tenant_id, project_id |-> a.project_id,
             user_id |-> r.user_id] @@ args

\* The answer of an engine step; the stats the client read before the request
\* (stats0) stay with it.
Answer(o, status, res) ==
    [pc |-> "done", kind |-> o.kind, status |-> status, bound |-> o.bound,
     passed |-> o.passed, tenant_id |-> o.tenant_id, project_id |-> o.project_id,
     user_id |-> o.user_id] @@ res @@
    (IF "stats0" \in DOMAIN o THEN [stats0 |-> o.stats0] ELSE <<>>)

OpScope(o) == <<o.tenant_id, o.project_id, o.user_id>>

\* ---------------------------------------------------------- vector index

fragment_to_payload(f) ==
    [tenant_id |-> f.tenant_id, project_id |-> f.project_id, user_id |-> f.user_id,
     memory_type |-> f.memory_type, content |-> f.content,
     created_at |-> f.created_at,
     session_id |-> IF Truthy(f.session_id) THEN f.session_id ELSE None]

\* A variant whose filter leaves out the user_id condition.
build_filter_NoUser(tenant_id, project_id, user_id, memory_type, session_id) ==
    {p \in vec :
        /\ p.tenant_id = tenant_id
        /\ p.project_id = project_id
        /\ (Truthy(memory_type) => p.memory_type = memory_type)
        /\ (Truthy(session_id) => p.session_id = session_id)}

\* The points that pass the payload filter.
build_filter(tenant_id, project_id, user_id, memory_type, session_id) ==
    {p \in vec :
        /\ p.tenant_id = tenant_id
        /\ p.project_id = project_id
        /\ p.user_id = user_id
        /\ (Truthy(memory_type) => p.memory_type = memory_type)
        /\ (Truthy(session_id) => p.session_id = session_id)}

\* A variant that keeps a hit without a row, built from the hit alone.
enrich_KeepMissing(items, with_score) ==
    LET metas == get_memory_fragments({items[i].id : i \in 1..Len(items)})
    IN [i \in 1..Len(items) |->
            IF \E m \in metas : m.id = items[i].id
            THEN LET m == CHOOSE x \in metas : x.id = items[i].id
                     full == [m EXCEPT !.content = items[i].content]
                 IN IF with_score THEN full @@ [score |-> items[i].score] ELSE full
            ELSE items[i]]

\* Hydration: the metadata rows of the hit ids, in hit order, each with the
\* content (and score) of its hit; a hit without a row is left out.
enrich_with_meta_store(items, with_score) ==
    LET metas == get_memory_fragments({items[i].id : i \in 1..Len(items)})
        kept == SelectSeq(items, LAMBDA it : \E m \in metas : m.id = it.id)
    IN [i \in 1..Len(kept) |->
            LET m == CHOOSE x \in metas : x.id = kept[i].id
                full == [m EXCEPT !.content = kept[i].content]
            IN IF with_score THEN full @@ [score |-> kept[i].score] ELSE full]

\* ----------------------------------------------------------------- add

\* POST /memories: the route, then MemoryManager.add builds the fragment
\* (id: the fresh uuid; d: how far the clock has moved; both timestamps "now").
AddRequest(w, key, passed, content, memory_type, session_id, id, d) ==
    /\ op[w].pc = "idle"
    /\ LET o == Routed("add", "add_meta", key, passed, <<>>)
       IN IF o.pc = "done"
          THEN /\ op' = [op EXCEPT ![w] = o]
               /\ UNCHANGED <<usedIds, clock>>
          ELSE /\ id \in FragIds \ usedIds
               /\ clock + d <= MaxClock
               /\ usedIds' = usedIds \cup {id}
               /\ clock' = clock + d
               /\ op' = [op EXCEPT ![w] = o @@
                    [frag |-> [id |-> id, tenant_id |-> o.tenant_id,
                               project_id |-> o.project_id, user_id |-> o.user_id,
                               content |-> content, memory_type |-> memory_type,
                               session_id |-> session_id, tags |-> <<>>,
                               hit_count |-> 0, created_at |-> clock + d,
                               updated_at |-> clock + d],
                     stats0 |-> get_user_stats(o.tenant_id, o.project_id, o.user_id)]]
    /\ UNCHANGED <<chanVars, meta, vec, vector_store, gateVars>>

\* add_memory_fragment: the INSERT commits.
AddMeta(w) ==
    /\ op[w].pc = "add_meta"
    /\ meta' = meta \cup {op[w].frag}
    /\ op' = [op EXCEPT ![w].pc = "add_vec"]
    /\ UNCHANGED <<chanVars, vec, usedIds, clock, vector_store, gateVars>>

\* add_memory_fragment raises: nothing was written, the error propagates.
AddMetaFail(w) ==
    /\ op[w].pc = "add_meta"
    /\ op' = [op EXCEPT ![w] = Answer(op[w], 500, [id |-> op[w].frag.id, cause |-> "meta"])]
    /\ UNCHANGED <<chanVars, memVars, vector_store, gateVars>>

\* A variant whose upsert reports success without storing the point.
AddVecOk_NoUpsert(w) ==
    /\ op[w].pc = "add_vec"
    /\ LET f == op[w].frag
       IN /\ vec' = vec
          /\ op' = [op EXCEPT ![w] = Answer(op[w], 200,
                       [id |-> f.id, cause |-> None, memory_type |-> f.memory_type,
                        stats0 |-> op[w].stats0])]
    /\ UNCHANGED <<chanVars, meta, usedIds, clock, vector_store, gateVars>>

\* _encode and upsert succeed: the point is written.
AddVecOk(w) ==
    /\ op[w].pc = "add_vec"
    /\ LET f == op[w].frag
       IN /\ vec' = (vec \ Point(f.id)) \cup
                    {[id |-> f.id, vector |-> encode(f.content)] @@ fragment_to_payload(f)}
          /\ op' = [op EXCEPT ![w] = Answer(op[w], 200,
                       [id |-> f.id, cause |-> None, memory_type |-> f.memory_type,
                        stats0 |-> op[w].stats0])]
    /\ UNCHANGED <<chanVars, meta, usedIds, clock, vector_store, gateVars>>

\* A variant in which the failing upsert has already stored the point.
AddVecFail_PointStored(w) ==
    /\ op[w].pc = "add_vec"
    /\ LET f == op[w].frag
       IN vec' = (vec \ Point(f.id)) \cup
                 {[id |-> f.id, vector |-> encode(f.content)] @@ fragment_to_payload(f)}
    /\ \E cause \in {"encode", "upsert"} :
          op' = [op EXCEPT ![w] = [@ EXCEPT !.pc = "add_comp"] @@ [cause |-> cause]]
    /\ UNCHANGED <<chanVars, meta, usedIds, clock, vector_store, gateVars>>

\* _encode or upsert raises: no point is written, the except branch is entered.
AddVecFail(w) ==
    /\ op[w].pc = "add_vec"
    /\ \E cause \in {"encode", "upsert"} :
          op' = [op EXCEPT ![w] = [@ EXCEPT !.pc = "add_comp"] @@ [cause |-> cause]]
    /\ UNCHANGED <<chanVars, memVars, vector_store, gateVars>>

\* A variant whose except branch re-raises without deleting the row.
AddCompensate_NoDelete(w) ==
    /\ op[w].pc = "add_comp"
    /\ op' = [op EXCEPT ![w] = Answer(op[w], 500,
                 [id |-> op[w].frag.id, cause |-> op[w].cause, stats0 |-> op[w].stats0])]
    /\ UNCHANGED <<chanVars, memVars, vector_store, gateVars>>

\* The handler of every exception no other handler is registered for: 500
\* with the error kind internal_error.
general_error_handler == [status |-> 500, error |-> "internal_error"]

\* The except branch: delete the metadata row, re-raise; the exception
\* reaches the application's general handler.
AddCompensate(w) ==
    /\ op[w].pc = "add_comp"
    /\ meta' = meta \ Row(op[w].frag.id)
    /\ op' = [op EXCEPT ![w] = Answer(op[w], general_error_handler.status,
                 [id |-> op[w].frag.id, cause |-> op[w].cause, stats0 |-> op[w].stats0,
                  error |-> general_error_handler.error])]
    /\ UNCHANGED <<chanVars, vec, usedIds, clock, vector_store, gateVars>>

\* -------------------------------------------------------------- delete

\* DELETE /memories/{id}: the route.
DeleteRequest(w, key, passed, fragment_id) ==
    /\ op[w].pc = "idle"
    /\ op' = [op EXCEPT ![w] = Routed("delete", "del_get", key, passed, [id |-> fragment_id])]
    /\ UNCHANGED <<chanVars, memVars, vector_store, gateVars>>

\* DELETE /memories/{id} of the id the add just answered, under the scope of
\* that add.
DeleteReturned(w, key, passed) ==
    /\ op[w].pc = "done" /\ op[w].kind = "add" /\ op[w].status = 200
    /\ LET o == Routed("delete", "del_get", key, passed,
                       [id |-> op[w].id, stats0 |-> op[w].stats0])
       IN /\ o.pc = "del_get"
          /\ OpScope(o) = OpScope(op[w])
          /\ op' = [op EXCEPT ![w] = o]
    /\ UNCHANGED <<chanVars, memVars, vector_store, gateVars>>

\* get_memory_fragment and the scope check.
DelGet(w) ==
    /\ op[w].pc = "del_get"
    /\ LET old == get_memory_fragment(op[w].id)
       IN op' = [op EXCEPT ![w] =
            IF old = {} \/ (\E r \in old : ScopeOf(r) /= OpScope(op[w]))
            THEN Answer(op[w], 404, [id |-> op[w].id, cause |-> "get"])
            ELSE [@ EXCEPT !.pc = "del_meta"]]
    /\ UNCHANGED <<chanVars, memVars, vector_store, gateVars>>

\* A variant whose DELETE removes no row and reports one removed.
DelMeta_KeepRow(w) ==
    /\ op[w].pc = "del_meta"
    /\ meta' = meta
    /\ op' = [op EXCEPT ![w] =
            IF Row(op[w].id) = {}
            THEN Answer(op[w], 404, [id |-> op[w].id, cause |-> "meta"])
            ELSE [@ EXCEPT !.pc = "del_vec"]]
    /\ UNCHANGED <<chanVars, vec, usedIds, clock, vector_store, gateVars>>

\* delete_memory_fragment: DELETE ... WHERE id; rowcount > 0.
DelMeta(w) ==
    /\ op[w].pc = "del_meta"
    /\ meta' = meta \ Row(op[w].id)
    /\ op' = [op EXCEPT ![w] =
            IF Row(op[w].id) = {}
            THEN Answer(op[w], 404, [id |-> op[w].id, cause |-> "meta"])
            ELSE [@ EXCEPT !.pc = "del_vec"]]
    /\ UNCHANGED <<chanVars, vec, usedIds, clock, vector_store, gateVars>>

\* The vector delete succeeds: True, 200.
DelVecOk(w) ==
    /\ op[w].pc = "del_vec"
    /\ vec' = vec \ Point(op[w].id)
    /\ op' = [op EXCEPT ![w] = Answer(op[w], 200, [id |-> op[w].id, cause |-> None])]
    /\ UNCHANGED <<chanVars, meta, usedIds, clock, vector_store, gateVars>>

\* The vector delete raises: the except branch returns False, the route 404.
DelVecFail(w) ==
    /\ op[w].pc = "del_vec"
    /\ op' = [op EXCEPT ![w] = Answer(op[w], 404, [id |-> op[w].id, cause |-> "vector"])]
    /\ UNCHANGED <<chanVars, memVars, vector_store, gateVars>>

\* -------------------------------------------------------------- update

\* PUT /memories/{id}: the route.  None marks a field the body leaves out.
UpdateRequest(w, key, passed, fragment_id, content, tags) ==
    /\ op[w].pc = "idle"
    /\ op' = [op EXCEPT ![w] = Routed("update", "upd_get", key, passed,
                 [id |-> fragment_id, content |-> content, tags |-> tags])]
    /\ UNCHANGED <<chanVars, memVars, vector_store, gateVars>>

\* A variant that checks only that the row exists.
UpdGet_NoScopeCheck(w) ==
    /\ op[w].pc = "upd_get"
    /\ LET old == get_memory_fragment(op[w].id)
       IN op' = [op EXCEPT ![w] =
            IF old = {}
            THEN Answer(op[w], 404, [id |-> op[w].id, cause |-> "get"])
            ELSE [@ EXCEPT !.pc = "upd_meta"] @@ [old |-> CHOOSE r \in old : TRUE]]
    /\ UNCHANGED <<chanVars, memVars, vector_store, gateVars>>

\* get_memory_fragment and the scope check.
UpdGet(w) ==
    /\ op[w].pc = "upd_get"
    /\ LET old == get_memory_fragment(op[w].id)
       IN op' = [op EXCEPT ![w] =
            IF old = {} \/ (\E r \in old : ScopeOf(r) /= OpScope(op[w]))
            THEN Answer(op[w], 404, [id |-> op[w].id, cause |-> "get"])
            ELSE [@ EXCEPT !.pc = "upd_meta"] @@ [old |-> CHOOSE r \in old : TRUE]]
    /\ UNCHANGED <<chanVars, memVars, vector_store, gateVars>>

\* A variant whose UPDATE also writes hit_count, as 0.
updated_row_ResetHits(r, content, tags, now) ==
    [r EXCEPT !.content = IF content = None THEN @ ELSE content,
              !.tags = IF tags = None THEN @ ELSE tags,
              !.hit_count = 0,
              !.updated_at = now]

\* A variant whose UPDATE writes every updatable column, the absent ones as
\* empty.
updated_row_AllColumns(r, content, tags, now) ==
    [r EXCEPT !.content = IF content = None THEN "" ELSE content,
              !.tags = IF tags = None THEN <<>> ELSE tags,
              !.updated_at = now]

\* The row after UPDATE ... SET <the given fields>, updated_at = now.
updated_row(r, content, tags, now) ==
    [r EXCEPT !.content = IF content = None THEN @ ELSE content,
              !.tags = IF tags = None THEN @ ELSE tags,
              !.updated_at = now]

\* update_memory_fragment: no statement for an empty update; else rowcount > 0
\* (d: how far the clock has moved; at: the updated_at the statement wrote).
UpdMeta(w, d) ==
    /\ op[w].pc = "upd_meta"
    /\ LET o == op[w]
           empty == o.content = None /\ o.tags = None
           success == empty \/ Row(o.id) /= {}
           next == IF o.content /= None THEN "upd_vectors" ELSE "upd_ret"
       IN /\ clock + d <= MaxClock
          /\ IF empty
             THEN UNCHANGED <<meta, clock>>
             ELSE /\ clock' = clock + d
                  /\ meta' = {IF r.id = o.id
                              THEN updated_row(r, o.content, o.tags, clock + d)
                              ELSE r : r \in meta}
          /\ op' = [op EXCEPT ![w] =
                IF success
                THEN [@ EXCEPT !.pc = next] @@
                     [at |-> IF empty THEN None ELSE clock + d]
                ELSE Answer(o, 404, [id |-> o.id, cause |-> "meta"])]
    /\ UNCHANGED <<chanVars, vec, usedIds, vector_store, gateVars>>

\* _encode and update_vectors succeed (a missing point stays missing).
UpdVectorsOk(w) ==
    /\ op[w].pc = "upd_vectors"
    /\ vec' = {IF p.id = op[w].id THEN [p EXCEPT !.vector = encode(op[w].content)]
               ELSE p : p \in vec}
    /\ op' = [op EXCEPT ![w].pc = "upd_payload"]
    /\ UNCHANGED <<chanVars, meta, usedIds, clock, vector_store, gateVars>>

\* _encode or update_vectors raises: the error propagates, nothing is undone.
UpdVectorsFail(w) ==
    /\ op[w].pc = "upd_vectors"
    /\ op' = [op EXCEPT ![w] = Answer(op[w], 500, [id |-> op[w].id, cause |-> "vector"])]
    /\ UNCHANGED <<chanVars, memVars, vector_store, gateVars>>

\* set_payload succeeds.
UpdPayloadOk(w) ==
    /\ op[w].pc = "upd_payload"
    /\ vec' = {IF p.id = op[w].id THEN [p EXCEPT !.content = op[w].content]
               ELSE p : p \in vec}
    /\ op' = [op EXCEPT ![w].pc = "upd_ret"]
    /\ UNCHANGED <<chanVars, meta, usedIds, clock, vector_store, gateVars>>

\* set_payload raises.
UpdPayloadFail(w) ==
    /\ op[w].pc = "upd_payload"
    /\ op' = [op EXCEPT ![w] = Answer(op[w], 500, [id |-> op[w].id, cause |-> "payload"])]
    /\ UNCHANGED <<chanVars, memVars, vector_store, gateVars>>

\* return get_memory_fragment(fragment_id); the route answers 404 for None.
UpdReturn(w) ==
    /\ op[w].pc = "upd_ret"
    /\ LET now == get_memory_fragment(op[w].id)
       IN op' = [op EXCEPT ![w] =
            IF now = {}
            THEN Answer(op[w], 404, [id |-> op[w].id, cause |-> "gone"])
            ELSE Answer(op[w], 200, [id |-> op[w].id, cause |-> None,
                                      content |-> op[w].content, tags |-> op[w].tags,
                                      old |-> op[w].old, at |-> op[w].at,
                                      result |-> CHOOSE r \in now : TRUE])]
    /\ UNCHANGED <<chanVars, memVars, vector_store, gateVars>>

\* -------------------------------------------------------------- search

\* POST /memories/search: the route.
SearchRequest(w, key, passed, query, limit, memory_type, session_id) ==
    /\ op[w].pc = "idle"
    /\ op' = [op EXCEPT ![w] = Routed("search", "s_query", key, passed,
                 [query |-> query, limit |-> limit, memory_type |-> memory_type,
                  session_id |-> session_id])]
    /\ UNCHANGED <<chanVars, memVars, vector_store, gateVars>>

\* query_points: the filtered points, best score first, at most limit of them.
query_points(query_vector, points, limit) ==
    LET hits == {[id |-> p.id, content |-> p.content,
                  score |-> score(query_vector, p.vector)] : p \in points}
    IN Take(SortedBy(hits, [h \in hits |-> 0 - h.score]), limit)

\* scroll: the filtered points in id order, at most limit of them.
scroll(points, limit) ==
    LET recs == {[id |-> p.id, content |-> p.content, created_at |-> p.created_at] :
                    p \in points}
    IN Take(SortedBy(recs, [r \in recs |-> r.id]), limit)

\* _encode(query) and query_points.
SearchQuery(w) ==
    /\ op[w].pc = "s_query"
    /\ LET o == op[w]
       IN op' = [op EXCEPT ![w] = [@ EXCEPT !.pc = "s_hydrate"] @@
            [items |-> query_points(encode(o.query),
                          build_filter(o.tenant_id, o.project_id, o.user_id,
                                       o.memory_type, o.session_id), o.limit)]]
    /\ UNCHANGED <<chanVars, memVars, vector_store, gateVars>>

\* _encode(query) raises.
SearchQueryFail(w) ==
    /\ op[w].pc = "s_query"
    /\ op' = [op EXCEPT ![w] = Answer(op[w], 500, [cause |-> "encode"])]
    /\ UNCHANGED <<chanVars, memVars, vector_store, gateVars>>

\* _enrich_with_meta_store; MemoryManager.search then walks the results.
SearchHydrate(w) ==
    /\ op[w].pc = "s_hydrate"
    /\ LET res == enrich_with_meta_store(op[w].items, TRUE)
       IN op' = [op EXCEPT ![w] =
            IF res = <<>>
            THEN Answer(op[w], 200, [items |-> op[w].items, results |-> res])
            ELSE [@ EXCEPT !.pc = "s_hits"] @@ [results |-> res, i |-> 1, misses |-> 0]]
    /\ UNCHANGED <<chanVars, memVars, vector_store, gateVars>>

\* The loop over the results moves on, or the search returns them; misses
\* counts the increments that raised.
AfterHit(o) ==
    IF o.i = Len(o.results)
    THEN Answer(o, 200, [items |-> o.items, results |-> o.results, misses |-> o.misses])
    ELSE [o EXCEPT !.i = o.i + 1]

\* increment_hit_count for the i-th result: UPDATE ... hit_count + 1 WHERE id.
HitIncrement(w) ==
    /\ op[w].pc = "s_hits"
    /\ LET id == op[w].results[op[w].i].id
       IN /\ \A r \in Row(id) : r.hit_count < MaxHit
          /\ meta' = {IF r.id = id THEN [r EXCEPT !.hit_count = @ + 1] ELSE r : r \in meta}
    /\ op' = [op EXCEPT ![w] = AfterHit(op[w])]
    /\ UNCHANGED <<chanVars, vec, usedIds, clock, vector_store, gateVars>>

\* A variant without the try/except around the increment.
HitIncrementFail_Raises(w) ==
    /\ op[w].pc = "s_hits"
    /\ op' = [op EXCEPT ![w] = Answer(op[w], 500, [cause |-> "hit_count"])]
    /\ UNCHANGED <<chanVars, memVars, vector_store, gateVars>>

\* increment_hit_count raises: except Exception: pass.
HitIncrementFail(w) ==
    /\ op[w].pc = "s_hits"
    /\ op' = [op EXCEPT ![w] = AfterHit([op[w] EXCEPT !.misses = @ + 1])]
    /\ UNCHANGED <<chanVars, memVars, vector_store, gateVars>>

\* ----------------------------------------------------- list and history

\* GET /memories: the route.
ListRequest(w, key, passed, memory_type, limit) ==
    /\ op[w].pc = "idle"
    /\ op' = [op EXCEPT ![w] = Routed("list", "l_scroll", key, passed,
                 [memory_type |-> memory_type, session_id |-> None, limit |-> limit])]
    /\ UNCHANGED <<chanVars, memVars, vector_store, gateVars>>

\* GET /sessions/{session_id}/history: the route.
HistoryRequest(w, key, passed, session_id, limit) ==
    /\ op[w].pc = "idle"
    /\ op' = [op EXCEPT ![w] = Routed("history", "l_scroll", key, passed,
                 [memory_type |-> None, session_id |-> session_id, limit |-> limit])]
    /\ UNCHANGED <<chanVars, memVars, vector_store, gateVars>>

\* The scroll of list_memories and of get_by_session.
Scroll(w) ==
    /\ op[w].pc = "l_scroll"
    /\ LET o == op[w]
       IN op' = [op EXCEPT ![w] = [@ EXCEPT !.pc = "l_hydrate"] @@
            [items |-> scroll(build_filter(o.tenant_id, o.project_id, o.user_id,
                                           o.memory_type, o.session_id), o.limit)]]
    /\ UNCHANGED <<chanVars, memVars, vector_store, gateVars>>

\* Hydration, then the sort on created_at: newest first for list, oldest
\* first for history; the sort is stable.
hydrate_sorted(kind, items) ==
    LET res == Range(enrich_with_meta_store(items, FALSE))
    IN IF kind = "list"
       THEN SortedBy(res, [r \in res |-> 0 - r.created_at])
       ELSE SortedBy(res, [r \in res |-> r.created_at])

\* The second half of list_memories and get_by_session.
ScrollHydrate(w) ==
    /\ op[w].pc = "l_hydrate"
    /\ op' = [op EXCEPT ![w] = Answer(op[w], 200,
                 [items |-> op[w].items,
                  results |-> hydrate_sorted(op[w].kind, op[w].items)])]
    /\ UNCHANGED <<chanVars, memVars, vector_store, gateVars>>

\* What list_memories returns when nothing interleaves with it.
list_memories(tenant_id, project_id, user_id, memory_type, limit) ==
    hydrate_sorted("list",
        scroll(build_filter(tenant_id, project_id, user_id, memory_type, None), limit))

\* --------------------------------------------------------------- stats

\* GET /users/{user_id}/stats: the route; a path segment is never empty.
StatsRequest(w, key, passed) ==
    /\ op[w].pc = "idle"
    /\ Truthy(passed)
    /\ op' = [op EXCEPT ![w] = Routed("stats", "st_read", key, passed, <<>>)]
    /\ UNCHANGED <<chanVars, memVars, vector_store, gateVars>>

\* GET /users/me/stats: the bound user, 400 for a key without one.
MyStatsRequest(w, key) ==
    /\ op[w].pc = "idle"
    /\ LET a == check_api_key(key)
       IN op' = [op EXCEPT ![w] =
            IF a.status /= 200 \/ ~Truthy(a.bound)
            THEN [pc |-> "done", kind |-> "mystats",
                  status |-> IF a.status /= 200 THEN a.status ELSE 400,
                  bound |-> a.bound, passed |-> None]
            ELSE [pc |-> "st_read", kind |-> "mystats", status |-> 0,
                  bound |-> a.bound, passed |-> None, tenant_id |-> a.tenant_id,
                  project_id |-> a.project_id, user_id |-> a.bound]]
    /\ UNCHANGED <<chanVars, memVars, vector_store, gateVars>>

\* get_stats: get_user_stats of the metadata store.
StatsRead(w) ==
    /\ op[w].pc = "st_read"
    /\ op' = [op EXCEPT ![w] = Answer(op[w], 200,
                 [stats |-> get_user_stats(op[w].tenant_id, op[w].project_id,
                                           op[w].user_id)])]
    /\ UNCHANGED <<chanVars, memVars, vector_store, gateVars>>

\* ------------------------------------------------------------- channels

\* What an admin route answers; admin requests carry no user scope.
Admin(kind, status, res) == [pc |-> "done", kind |-> kind, status |-> status] @@ res
AdminAt(kind, pc0, args) == [pc |-> pc0, kind |-> kind, status |-> 0] @@ args

\* POST /v1/channels/tenants: INSERT INTO tenants, a fresh uuid.
RegisterTenant(w, name) ==
    /\ op[w].pc = "idle"
    /\ nextTenant < MaxTenants
    /\ nextTenant' = nextTenant + 1
    /\ tenants' = tenants \cup {[id |-> nextTenant + 1, name |-> name]}
    /\ op' = [op EXCEPT ![w] = Admin("register_tenant", 200, [tenant_id |-> nextTenant + 1])]
    /\ UNCHANGED <<projects, api_keys, issued, nextProject, memVars, vector_store, gateVars>>

\* POST /v1/channels/projects: get_tenant (ValueError answers 400), then
\* Project(...) draws a fresh uuid.
CreateProjectRequest(w, tenant_id, name) ==
    /\ op[w].pc = "idle"
    /\ nextProject < MaxProjects
    /\ IF get_tenant(tenant_id) = {}
       THEN /\ op' = [op EXCEPT ![w] =
                         Admin("create_project", 400, [tenant_id |-> tenant_id])]
            /\ UNCHANGED nextProject
       ELSE /\ nextProject' = nextProject + 1
            /\ op' = [op EXCEPT ![w] = AdminAt("create_project", "cp_insert",
                         [tenant_id |-> tenant_id, name |-> name,
                          project_id |-> nextProject + 1])]
    /\ UNCHANGED <<tenants, projects, api_keys, issued, nextTenant, memVars, vector_store, gateVars>>

\* INSERT INTO projects; FOREIGN KEY (tenant_id) REFERENCES tenants(id).
CreateProjectInsert(w) ==
    /\ op[w].pc = "cp_insert"
    /\ IF get_tenant(op[w].tenant_id) = {}
       THEN /\ op' = [op EXCEPT ![w] = Admin("create_project", 500,
                         [tenant_id |-> op[w].tenant_id])]
            /\ UNCHANGED projects
       ELSE /\ projects' = projects \cup {[id |-> op[w].project_id,
                              tenant_id |-> op[w].tenant_id, name |-> op[w].name]}
            /\ op' = [op EXCEPT ![w] = Admin("create_project", 200,
                         [tenant_id |-> op[w].tenant_id,
                          project_id |-> op[w].project_id])]
    /\ UNCHANGED <<tenants, api_keys, issued, nextTenant, nextProject, memVars, vector_store, gateVars>>

\* A variant that does not compare the project's tenant with the given one.
GenerateKeyRequest_AnyTenant(w, tenant_id, project_id, user_id) ==
    /\ op[w].pc = "idle"
    /\ Cardinality(issued) < MaxKeys
    /\ op' = [op EXCEPT ![w] =
            IF \/ get_tenant(tenant_id) = {}
               \/ get_project(project_id) = {}
            THEN Admin("generate_api_key", 400,
                       [tenant_id |-> tenant_id, project_id |-> project_id])
            ELSE AdminAt("generate_api_key", "gk_insert",
                         [tenant_id |-> tenant_id, project_id |-> project_id,
                          user_id |-> user_id])]
    /\ UNCHANGED <<chanVars, memVars, vector_store, gateVars>>

\* POST /v1/channels/api-keys: get_tenant, get_project; ValueError answers 400.
GenerateKeyRequest(w, tenant_id, project_id, user_id) ==
    /\ op[w].pc = "idle"
    /\ Cardinality(issued) < MaxKeys
    /\ op' = [op EXCEPT ![w] =
            IF \/ get_tenant(tenant_id) = {}
               \/ get_project(project_id) = {}
               \/ \E p \in get_project(project_id) : p.tenant_id /= tenant_id
            THEN Admin("generate_api_key", 400,
                       [tenant_id |-> tenant_id, project_id |-> project_id])
            ELSE AdminAt("generate_api_key", "gk_insert",
                         [tenant_id |-> tenant_id, project_id |-> project_id,
                          user_id |-> user_id])]
    /\ UNCHANGED <<chanVars, memVars, vector_store, gateVars>>

\* The row INSERT INTO api_keys writes for a secret.
key_row(key, tenant_id, project_id, user_id) ==
    [key_id |-> extract_key_id(key), key_hash |-> hash_key(key),
     tenant_id |-> tenant_id, project_id |-> project_id, user_id |-> user_id,
     is_active |-> TRUE]

\* Whether the INSERT of the row passes PRIMARY KEY (key_id), UNIQUE
\* (key_hash) and the two FOREIGN KEYs.
key_insertable(row) ==
    /\ get_tenant(row.tenant_id) /= {}
    /\ get_project(row.project_id) /= {}
    /\ \A k \in api_keys : k.key_id /= row.key_id /\ k.key_hash /= row.key_hash

\* token_urlsafe draws the secret (256 random bits: never one drawn before);
\* INSERT INTO api_keys; the secret is returned.
GenerateKeyInsert(w, key) ==
    /\ op[w].pc = "gk_insert"
    /\ key \notin {i.key : i \in issued}
    /\ LET row == key_row(key, op[w].tenant_id, op[w].project_id, op[w].user_id)
       IN IF key_insertable(row)
          THEN /\ api_keys' = api_keys \cup {row}
               /\ issued' = issued \cup {[key |-> key, tenant_id |-> row.tenant_id,
                                           project_id |-> row.project_id,
                                           user_id |-> row.user_id]}
               /\ op' = [op EXCEPT ![w] = Admin("generate_api_key", 200,
                            [key |-> key, key_id |-> row.key_id])]
          ELSE /\ op' = [op EXCEPT ![w] = Admin("generate_api_key", 500,
                            [tenant_id |-> op[w].tenant_id])]
               /\ UNCHANGED <<api_keys, issued>>
    /\ UNCHANGED <<tenants, projects, nextTenant, nextProject, memVars, vector_store, gateVars>>

\* UPDATE api_keys SET is_active = 0 WHERE key_id = %s AND is_active = 1.
revoke_rows(key_id) == {k \in api_keys : k.key_id = key_id /\ k.is_active}

\* A variant that answers for the matching rows without updating them.
RevokeKey_NoUpdate(w, key_id) ==
    /\ op[w].pc = "idle"
    /\ op' = [op EXCEPT ![w] = Admin("revoke_api_key",
                 IF revoke_rows(key_id) /= {} THEN 200 ELSE 404,
                 [key_id |-> key_id, revoked |-> revoke_rows(key_id) /= {}])]
    /\ UNCHANGED <<chanVars, memVars, vector_store, gateVars>>

\* A variant whose UPDATE flips is_active of the rows with the key_id.
RevokeKey_Toggle(w, key_id) ==
    /\ op[w].pc = "idle"
    /\ LET rows == {k \in api_keys : k.key_id = key_id}
       IN /\ api_keys' = {IF k \in rows THEN [k EXCEPT !.is_active = ~@]
                          ELSE k : k \in api_keys}
          /\ op' = [op EXCEPT ![w] = Admin("revoke_api_key",
                       IF rows /= {} THEN 200 ELSE 404,
                       [key_id |-> key_id, revoked |-> rows /= {}])]
    /\ UNCHANGED <<tenants, projects, issued, nextTenant, nextProject, memVars, vector_store, gateVars>>

\* DELETE /v1/channels/api-keys/{key_id}: 404 when no row was updated.
RevokeKey(w, key_id) ==
    /\ op[w].pc = "idle"
    /\ api_keys' = {IF k \in revoke_rows(key_id) THEN [k EXCEPT !.is_active = FALSE]
                    ELSE k : k \in api_keys}
    /\ op' = [op EXCEPT ![w] = Admin("revoke_api_key",
                 IF revoke_rows(key_id) /= {} THEN 200 ELSE 404,
                 [key_id |-> key_id, revoked |-> revoke_rows(key_id) /= {}])]
    /\ UNCHANGED <<tenants, projects, issued, nextTenant, nextProject, memVars, vector_store, gateVars>>

\* A variant whose SELECT returns every column of the rows.
list_api_keys_AllColumns(project_id) ==
    {k \in api_keys : k.project_id = project_id}

\* SELECT key_id, tenant_id, project_id, user_id, created_at, is_active
\* FROM api_keys WHERE project_id = %s.
list_api_keys(project_id) ==
    {[key_id |-> k.key_id, tenant_id |-> k.tenant_id, project_id |-> k.project_id,
      user_id |-> k.user_id, is_active |-> k.is_active] :
        k \in {r \in api_keys : r.project_id = project_id}}

\* GET /v1/channels/api-keys?project_id=: the listing of a project's keys.
ListKeys(w, project_id) ==
    /\ op[w].pc = "idle"
    /\ op' = [op EXCEPT ![w] = Admin("list_api_keys", 200,
                 [project_id |-> project_id, result |-> list_api_keys(project_id)])]
    /\ UNCHANGED <<chanVars, memVars, vector_store, gateVars>>

\* ChannelManager.verify_api_key: what a caller holding the secret observes.
VerifyKey(w, key) ==
    /\ op[w].pc = "idle"
    /\ op' = [op EXCEPT ![w] = Admin("verify_api_key", 200,
                 [key |-> key, result |-> verify_api_key(key)])]
    /\ UNCHANGED <<chanVars, memVars, vector_store, gateVars>>

\* ------------------------------------------------------------- cascades

\* delete_collection: delete the points whose payload has the tenant and project.
delete_collection(tenant_id, project_id) ==
    {p \in vec : ~(p.tenant_id = tenant_id /\ p.project_id = project_id)}

\* A variant that checks only that the project exists.
DeleteProjectRequest_NoOwnerCheck(w, project_id, tenant_id) ==
    /\ op[w].pc = "idle"
    /\ op' = [op EXCEPT ![w] =
            IF get_project(project_id) = {}
            THEN Admin("delete_project", 404,
                       [tenant_id |-> tenant_id, project_id |-> project_id])
            ELSE AdminAt("delete_project", "dp_txn",
                         [tenant_id |-> tenant_id, project_id |-> project_id])]
    /\ UNCHANGED <<chanVars, memVars, vector_store, gateVars>>

\* DELETE /v1/channels/projects/{id}?tenant_id=: get_project and the owner check.
DeleteProjectRequest(w, project_id, tenant_id) ==
    /\ op[w].pc = "idle"
    /\ op' = [op EXCEPT ![w] =
            IF \/ get_project(project_id) = {}
               \/ \E p \in get_project(project_id) : p.tenant_id /= tenant_id
            THEN Admin("delete_project", 404,
                       [tenant_id |-> tenant_id, project_id |-> project_id])
            ELSE AdminAt("delete_project", "dp_txn",
                         [tenant_id |-> tenant_id, project_id |-> project_id])]
    /\ UNCHANGED <<chanVars, memVars, vector_store, gateVars>>

\* One transaction: DELETE FROM api_keys WHERE project_id; DELETE FROM projects.
DeleteProjectTxn(w) ==
    /\ op[w].pc = "dp_txn"
    /\ api_keys' = {k \in api_keys : k.project_id /= op[w].project_id}
    /\ projects' = {p \in projects : p.id /= op[w].project_id}
    /\ op' = [op EXCEPT ![w] =
            IF get_project(op[w].project_id) = {}
            THEN Admin("delete_project", 404, [tenant_id |-> op[w].tenant_id,
                                               project_id |-> op[w].project_id])
            ELSE [@ EXCEPT !.pc = "dp_clean"]]
    /\ UNCHANGED <<tenants, issued, nextTenant, nextProject, memVars, vector_store, gateVars>>

\* The vector store a ChannelManager was constructed with, or the one
\* _get_vector_store constructs at its first use: QdrantStore.__init__ calls
\* the vector database and raises when that call fails.
get_vector_store == IF vector_store THEN {TRUE} ELSE BOOLEAN

\* _get_vector_store().delete_collection after the project is gone: a failure
\* of delete_collection is logged only, one of the construction is raised
\* to the route, which answers 500.
DeleteProjectClean(w) ==
    /\ op[w].pc = "dp_clean"
    /\ \E built \in get_vector_store, ok \in BOOLEAN :
        /\ vector_store' = built
        /\ vec' = IF built /\ ok
                  THEN delete_collection(op[w].tenant_id, op[w].project_id) ELSE vec
        /\ op' = [op EXCEPT ![w] = Admin("delete_project", IF built THEN 200 ELSE 500,
                     [tenant_id |-> op[w].tenant_id, project_id |-> op[w].project_id,
                      cleaned |-> built /\ ok])]
    /\ UNCHANGED <<chanVars, meta, usedIds, clock, gateVars>>

\* DELETE /v1/channels/tenants/{id}: ChannelManager.delete_tenant lists the
\* tenant's projects first.
DeleteTenantRequest(w, tenant_id) ==
    /\ op[w].pc = "idle"
    /\ op' = [op EXCEPT ![w] = AdminAt("delete_tenant", "dt_check",
                 [tenant_id |-> tenant_id,
                  todo |-> {p.id : p \in list_projects(tenant_id)}])]
    /\ UNCHANGED <<chanVars, memVars, vector_store, gateVars>>

\* delete_tenant: get_tenant; False answers 404.
DeleteTenantCheck(w) ==
    /\ op[w].pc = "dt_check"
    /\ op' = [op EXCEPT ![w] =
            IF get_tenant(op[w].tenant_id) = {}
            THEN Admin("delete_tenant", 404, [tenant_id |-> op[w].tenant_id])
            ELSE [@ EXCEPT !.pc = "dt_txn"]]
    /\ UNCHANGED <<chanVars, memVars, vector_store, gateVars>>

\* A variant whose transaction leaves out DELETE FROM api_keys.
DeleteTenantTxn_KeepKeys(w) ==
    /\ op[w].pc = "dt_txn"
    /\ projects' = {p \in projects : p.tenant_id /= op[w].tenant_id}
    /\ tenants' = {t \in tenants : t.id /= op[w].tenant_id}
    /\ op' = [op EXCEPT ![w] =
            IF get_tenant(op[w].tenant_id) = {}
            THEN Admin("delete_tenant", 404, [tenant_id |-> op[w].tenant_id])
            ELSE [@ EXCEPT !.pc = "dt_store"]]
    /\ UNCHANGED <<api_keys, issued, nextTenant, nextProject, memVars, vector_store, gateVars>>

\* A variant that commits after each statement: the worker stays in the
\* transaction until the tenant row is gone.
DeleteTenantTxn_Stepwise(w) ==
    /\ op[w].pc = "dt_txn"
    /\ LET t == op[w].tenant_id
           keys == {k \in api_keys : k.tenant_id = t}
       IN IF keys /= {}
          THEN /\ api_keys' = api_keys \ keys
               /\ UNCHANGED <<projects, tenants, op>>
          ELSE IF list_projects(t) /= {}
          THEN /\ projects' = projects \ list_projects(t)
               /\ UNCHANGED <<api_keys, tenants, op>>
          ELSE /\ tenants' = tenants \ get_tenant(t)
               /\ UNCHANGED <<api_keys, projects>>
               /\ op' = [op EXCEPT ![w] =
                       IF get_tenant(t) = {}
                       THEN Admin("delete_tenant", 404, [tenant_id |-> t])
                       ELSE [@ EXCEPT !.pc = "dt_store"]]
    /\ UNCHANGED <<issued, nextTenant, nextProject, memVars, vector_store, gateVars>>

\* One transaction: DELETE FROM api_keys, FROM projects, FROM tenants.
DeleteTenantTxn(w) ==
    /\ op[w].pc = "dt_txn"
    /\ api_keys' = {k \in api_keys : k.tenant_id /= op[w].tenant_id}
    /\ projects' = {p \in projects : p.tenant_id /= op[w].tenant_id}
    /\ tenants' = {t \in tenants : t.id /= op[w].tenant_id}
    /\ op' = [op EXCEPT ![w] =
            IF get_tenant(op[w].tenant_id) = {}
            THEN Admin("delete_tenant", 404, [tenant_id |-> op[w].tenant_id])
            ELSE [@ EXCEPT !.pc = "dt_store"]]
    /\ UNCHANGED <<issued, nextTenant, nextProject, memVars, vector_store, gateVars>>

\* The transaction raises before its commit: it is rolled back, the route 500.
DeleteTenantTxnFail(w) ==
    /\ op[w].pc = "dt_txn"
    /\ op' = [op EXCEPT ![w] = Admin("delete_tenant", 500, [tenant_id |-> op[w].tenant_id])]
    /\ UNCHANGED <<chanVars, memVars, vector_store, gateVars>>

\* vs = self._get_vector_store() after the tenant is gone, whether or not it
\* had projects.
DeleteTenantStore(w) ==
    /\ op[w].pc = "dt_store"
    /\ \E built \in get_vector_store :
        /\ vector_store' = built
        /\ op' = [op EXCEPT ![w] =
                IF ~built
                THEN Admin("delete_tenant", 500, [tenant_id |-> op[w].tenant_id])
                ELSE IF op[w].todo = {}
                THEN Admin("delete_tenant", 200, [tenant_id |-> op[w].tenant_id])
                ELSE [@ EXCEPT !.pc = "dt_clean"]]
    /\ UNCHANGED <<chanVars, memVars, gateVars>>

\* delete_collection for one of the listed projects; a failure is logged only.
DeleteTenantClean(w) ==
    /\ op[w].pc = "dt_clean"
    /\ \E p \in op[w].todo, ok \in BOOLEAN :
        /\ vec' = IF ok THEN delete_collection(op[w].tenant_id, p) ELSE vec
        /\ op' = [op EXCEPT ![w] =
                IF op[w].todo = {p}
                THEN Admin("delete_tenant", 200, [tenant_id |-> op[w].tenant_id])
                ELSE [@ EXCEPT !.todo = @ \ {p}]]
    /\ UNCHANGED <<chanVars, meta, usedIds, clock, vector_store, gateVars>>

\* The response has been sent; the worker takes the next request.
Return(w) ==
    /\ op[w].pc = "done"
    /\ op' = [op EXCEPT ![w] = Idle]
    /\ UNCHANGED <<chanVars, memVars, vector_store, gateVars>>

\* ------------------------------------------------------ middleware chain

\* The sliding window of both limiters, in seconds.
WINDOW == 60

\* A header that is missing or empty; a secret is <<prefix, rest>>.
Absent == <<"", "">>

\* A path is the sequence of its segments: "/" is <<>>.
AUTH_EXCLUDED_PREFIXES == {"docs", "redoc", "openapi.json"}

is_public(path) ==
    \/ Len(path) >= 1 /\ path[1] \in AUTH_EXCLUDED_PREFIXES
    \/ path = <<>> \/ path = <<"health">>

is_channels(path) == Len(path) >= 2 /\ path[1] = "v1" /\ path[2] = "channels"

\* Starlette's add_middleware puts the middleware in front of those added
\* before it: the one added last is the first to see a request.
add_middleware(user_middleware, cls) == <<cls>> \o user_middleware

\* create_app: CORS, the rate limiter when a limit is configured, then the
\* authentication middleware.
create_app ==
    LET cors == add_middleware(<<>>, "CORSMiddleware")
        rate == IF config.RATE_LIMIT_PER_MINUTE > 0
                THEN add_middleware(cors, "RateLimiterMiddleware") ELSE cors
    IN add_middleware(rate, "ApiKeyAuthMiddleware")

\* The middleware worker w's request is at.
At(w) == IF op[w].pc = "chain" THEN create_app[op[w].at] ELSE None

\* await call_next(request): the next middleware, or the route.
call_next(o) ==
    IF o.at = Len(create_app)
    THEN [o EXCEPT !.pc = "handler", !.trace = Append(@, "route")]
    ELSE [o EXCEPT !.at = @ + 1, !.trace = Append(@, create_app[o.at + 1])]

JSONResponse(o, status, error) ==
    [o EXCEPT !.pc = "done", !.status = status, !.error = error]

\* A request arrives and enters the outermost middleware.
Receive(w, path, api_key, admin_token, host, checks) ==
    /\ op[w].pc = "idle"
    /\ Len(history[IF api_key /= Absent THEN api_key ELSE host]) < checks
    /\ op' = [op EXCEPT ![w] =
            [pc |-> "chain", kind |-> "request", status |-> 0, error |-> None,
             path |-> path, api_key |-> api_key, admin_token |-> admin_token,
             host |-> host, at |-> 1, trace |-> <<create_app[1]>>,
             state |-> {}, verified |-> {}, limiter |-> None, redis_error |-> FALSE]]
    /\ UNCHANGED <<chanVars, memVars, vector_store, gateVars>>

\* A variant that lets every request pass when no token is configured.
check_admin_token_AllowUnset(o) ==
    IF config.ADMIN_TOKEN = ""
    THEN call_next(o)
    ELSE IF ~Truthy(o.admin_token)
    THEN JSONResponse(o, 401, "unauthorized")
    ELSE IF o.admin_token /= config.ADMIN_TOKEN
    THEN JSONResponse(o, 403, "forbidden")
    ELSE call_next(o)

\* _check_admin_token: fail-closed without a configured token.
check_admin_token(o) ==
    IF config.ADMIN_TOKEN = ""
    THEN JSONResponse(o, 403, "forbidden")
    ELSE IF ~Truthy(o.admin_token)
    THEN JSONResponse(o, 401, "unauthorized")
    ELSE IF o.admin_token /= config.ADMIN_TOKEN
    THEN JSONResponse(o, 403, "forbidden")
    ELSE call_next(o)

\* A variant that attaches what verify returned without looking at it.
check_api_key_header_NoVerify(o) ==
    IF o.api_key = Absent
    THEN JSONResponse(o, 401, "unauthorized")
    ELSE call_next([o EXCEPT
             !.state = {[tenant_id |-> k.tenant_id, project_id |-> k.project_id,
                         bound_user_id |-> k.user_id] : k \in verify_api_key(o.api_key)},
             !.verified = verify_api_key(o.api_key)])

\* _check_api_key; app.state.meta_store is set before requests are served.
\* verified records what verify_api_key returned.
check_api_key_header(o) ==
    IF o.api_key = Absent
    THEN JSONResponse(o, 401, "unauthorized")
    ELSE LET a == check_api_key(o.api_key)
         IN IF a.status /= 200
            THEN JSONResponse(o, 401, "unauthorized")
            ELSE call_next([o EXCEPT
                     !.state = {[tenant_id |-> a.tenant_id, project_id |-> a.project_id,
                                 bound_user_id |-> a.bound]},
                     !.verified = verify_api_key(o.api_key)])

\* ApiKeyAuthMiddleware.dispatch.
AuthDispatch(w) ==
    /\ At(w) = "ApiKeyAuthMiddleware"
    /\ op' = [op EXCEPT ![w] =
            IF is_public(@.path) THEN call_next(@)
            ELSE IF is_channels(@.path) THEN check_admin_token(@)
            ELSE check_api_key_header(@)]
    /\ UNCHANGED <<chanVars, memVars, vector_store, gateVars>>

\* CORSMiddleware passes a plain request on.
CorsDispatch(w) ==
    /\ At(w) = "CORSMiddleware"
    /\ op' = [op EXCEPT ![w] = call_next(@)]
    /\ UNCHANGED <<chanVars, memVars, vector_store, gateVars>>

\* The identity of the limiter: the API key, or the client's address.
client_id(o) == IF o.api_key /= Absent THEN o.api_key ELSE o.host

rate_limited(o, path) == [JSONResponse(o, 429, "rate_limited") EXCEPT !.limiter = path]

\* A variant without zremrangebyscore.
redis_pipeline_NoTrim(members, t) == members \cup {t}

\* The pipeline of _check_redis on the sorted set of client c at time t:
\* zremrangebyscore -inf..t-60, zadd {str(t): t}; a member is a timestamp.
redis_pipeline(members, t) == {m \in members : m > t - WINDOW} \cup {t}

\* _check_redis returns: the pipeline has run as one transaction; the count
\* decides.
LimitRedis(w) ==
    /\ At(w) = "RateLimiterMiddleware"
    /\ op[w].limiter = None
    /\ config.REDIS_URL
    /\ LET c == client_id(op[w])
           members == redis_pipeline(redis[c], time)
       IN /\ redis' = [redis EXCEPT ![c] = members]
          /\ history' = [history EXCEPT ![c] = Append(@,
                  [t |-> time, via |-> "redis",
                   ok |-> ~(Cardinality(members) > config.RATE_LIMIT_PER_MINUTE)])]
          /\ op' = [op EXCEPT ![w] =
                  IF Cardinality(members) > config.RATE_LIMIT_PER_MINUTE
                  THEN rate_limited(@, "redis")
                  ELSE call_next([@ EXCEPT !.limiter = "redis"])]
    /\ UNCHANGED <<chanVars, memVars, vector_store, config, time, windows>>

\* A variant that answers the error of the counter store.
LimitRedisFail_Rejects(w) ==
    /\ At(w) = "RateLimiterMiddleware"
    /\ op[w].limiter = None
    /\ config.REDIS_URL
    /\ \E applied \in BOOLEAN :
        redis' = IF applied
                 THEN [redis EXCEPT ![client_id(op[w])] = redis_pipeline(@, time)]
                 ELSE redis
    /\ op' = [op EXCEPT ![w] =
            [JSONResponse(@, 500, "internal_error") EXCEPT !.redis_error = TRUE]]
    /\ UNCHANGED <<chanVars, memVars, vector_store, config, time, windows, history>>

\* _check_redis catches an error of the counter store and returns None; the
\* transaction has run or has not.
LimitRedisFail(w) ==
    /\ At(w) = "RateLimiterMiddleware"
    /\ op[w].limiter = None
    /\ config.REDIS_URL
    /\ \E applied \in BOOLEAN :
        redis' = IF applied
                 THEN [redis EXCEPT ![client_id(op[w])] = redis_pipeline(@, time)]
                 ELSE redis
    /\ op' = [op EXCEPT ![w] = [@ EXCEPT !.limiter = "fallback", !.redis_error = TRUE]]
    /\ UNCHANGED <<chanVars, memVars, vector_store, config, time, windows, history>>

\* A variant without the lock: the list is read in one step, and the decision
\* and the write-back of the list that was read happen in a later one.
LimitMemory_NoLock(w) ==
    /\ At(w) = "RateLimiterMiddleware"
    /\ LET c == client_id(op[w])
       IN \/ /\ op[w].limiter = "fallback" \/ (op[w].limiter = None /\ ~config.REDIS_URL)
             /\ op' = [op EXCEPT ![w] = [@ EXCEPT !.limiter = "reading"] @@
                     [seen |-> SelectSeq(windows[c], LAMBDA t : t > time - WINDOW)]]
             /\ UNCHANGED <<windows, history>>
          \/ /\ op[w].limiter = "reading"
             /\ LET limited == Len(op[w].seen) >= config.RATE_LIMIT_PER_MINUTE
                IN /\ windows' = [windows EXCEPT ![c] =
                          IF limited THEN op[w].seen ELSE Append(op[w].seen, time)]
                   /\ history' = [history EXCEPT ![c] =
                          Append(@, [t |-> time, via |-> "memory", ok |-> ~limited])]
                   /\ op' = [op EXCEPT ![w] =
                          IF limited THEN rate_limited(@, "memory")
                          ELSE call_next([@ EXCEPT !.limiter = "memory"])]
    /\ UNCHANGED <<chanVars, memVars, vector_store, config, time, redis>>

\* A variant that records the request before it decides.
LimitMemory_RecordsAll(w) ==
    /\ At(w) = "RateLimiterMiddleware"
    /\ \/ op[w].limiter = "fallback"
       \/ op[w].limiter = None /\ ~config.REDIS_URL
    /\ LET c == client_id(op[w])
           timestamps == SelectSeq(windows[c], LAMBDA t : t > time - WINDOW)
           limited == Len(timestamps) >= config.RATE_LIMIT_PER_MINUTE
       IN /\ windows' = [windows EXCEPT ![c] = Append(timestamps, time)]
          /\ history' = [history EXCEPT ![c] =
                  Append(@, [t |-> time, via |-> "memory", ok |-> ~limited])]
          /\ op' = [op EXCEPT ![w] =
                  IF limited THEN rate_limited(@, "memory")
                  ELSE call_next([@ EXCEPT !.limiter = "memory"])]
    /\ UNCHANGED <<chanVars, memVars, vector_store, config, time, redis>>

\* _InMemoryRateLimiter.is_rate_limited, under its lock: when Redis is not
\* configured, or after its error.
LimitMemory(w) ==
    /\ At(w) = "RateLimiterMiddleware"
    /\ \/ op[w].limiter = "fallback"
       \/ op[w].limiter = None /\ ~config.REDIS_URL
    /\ LET c == client_id(op[w])
           timestamps == SelectSeq(windows[c], LAMBDA t : t > time - WINDOW)
           limited == Len(timestamps) >= config.RATE_LIMIT_PER_MINUTE
       IN /\ windows' = [windows EXCEPT ![c] =
                  IF limited THEN timestamps ELSE Append(timestamps, time)]
          /\ history' = [history EXCEPT ![c] =
                  Append(@, [t |-> time, via |-> "memory", ok |-> ~limited])]
          /\ op' = [op EXCEPT ![w] =
                  IF limited THEN rate_limited(@, "memory")
                  ELSE call_next([@ EXCEPT !.limiter = "memory"])]
    /\ UNCHANGED <<chanVars, memVars, vector_store, config, time, redis>>

\* is_rate_limited on the list of one identity at time t with limit N: the
\* decision and the list it leaves.
is_rate_limited(timestamps, t, N) ==
    LET kept == SelectSeq(timestamps, LAMBDA x : x > t - WINDOW)
    IN [limited |-> Len(kept) >= N,
        window |-> IF Len(kept) >= N THEN kept ELSE Append(kept, t)]

\* _check_redis on the sorted set of one identity at time t with limit N:
\* the decision and the set it leaves.
check_redis(members, t, N) ==
    LET ms == redis_pipeline(members, t)
    IN [limited |-> Cardinality(ms) > N, members |-> ms]

\* One request of identity c at the current time is given to both limiters,
\* each on its own store.
FeedBoth(w, c) ==
    /\ op[w].pc = "idle"
    /\ LET m == is_rate_limited(windows[c], time, config.RATE_LIMIT_PER_MINUTE)
           r == check_redis(redis[c], time, config.RATE_LIMIT_PER_MINUTE)
       IN /\ windows' = [windows EXCEPT ![c] = m.window]
          /\ redis' = [redis EXCEPT ![c] = r.members]
          /\ op' = [op EXCEPT ![w] =
                  [pc |-> "done", kind |-> "feed_both", status |-> 0, client |-> c,
                   memory |-> m.limited, redis |-> r.limited]]
    /\ UNCHANGED <<chanVars, memVars, vector_store, config, time, history>>

\* The route function runs and answers.
Handler(w) ==
    /\ op[w].pc = "handler"
    /\ op' = [op EXCEPT ![w] = [@ EXCEPT !.pc = "done", !.status = 200]]
    /\ UNCHANGED <<chanVars, memVars, vector_store, gateVars>>

\* Time passes: half a window.
Tick ==
    /\ time < MaxTicks * (WINDOW \div 2)
    /\ time' = time + WINDOW \div 2
    /\ UNCHANGED <<chanVars, memVars, vector_store, op, config, windows, redis, history>>

\* ------------------------------------------------------- specifications

\* The secrets of the provisioned keys: project 1 without a bound user,
\* project 1 bound to u1, project 2 bound to u1, project 2 with user_id "".
kA == <<"kA", "x">>
kU == <<"kU", "x">>
kV == <<"kV", "x">>
kE == <<"kE", "x">>
\* A secret no row was ever written for.
kZ == <<"kZ", "x">>

Provisioned ==
    {[key |-> kA, tenant_id |-> 1, project_id |-> 1, user_id |-> None],
     [key |-> kU, tenant_id |-> 1, project_id |-> 1, user_id |-> "u1"],
     [key |-> kV, tenant_id |-> 1, project_id |-> 2, user_id |-> "u1"],
     [key |-> kE, tenant_id |-> 1, project_id |-> 2, user_id |-> ""]}

\* The identities the limiter can meet: a presented X-API-Key, or the
\* client's address when the header is missing.
Host == <<"ip", "h1">>
ClientIds == {kA, kZ, Host}

\* The configuration's defaults with an administrator token set: rate
\* limiting is off (RATE_LIMIT_PER_MINUTE = 0), so that no limiter exists.
InitGateOff ==
    /\ vector_store = FALSE
    /\ config = [ADMIN_TOKEN |-> "s3cret", RATE_LIMIT_PER_MINUTE |-> 0,
                 REDIS_URL |-> FALSE]
    /\ time = 0
    /\ windows = [c \in ClientIds |-> <<>>]
    /\ redis = [c \in ClientIds |-> {}]
    /\ history = [c \in ClientIds |-> <<>>]

\* One tenant, two projects and the provisioned keys; no memory has been
\* written.
InitProvisioned ==
    /\ tenants = {[id |-> 1, name |-> "n1"]}
    /\ projects = {[id |-> 1, tenant_id |-> 1, name |-> "n1"],
                   [id |-> 2, tenant_id |-> 1, name |-> "n2"]}
    /\ api_keys = {key_row(i.key, i.tenant_id, i.project_id, i.user_id) : i \in Provisioned}
    /\ issued = Provisioned
    /\ nextTenant = 1
    /\ nextProject = 2
    /\ meta = {}
    /\ vec = {}
    /\ usedIds = {}
    /\ clock = 0
    /\ op = [w \in Workers |-> Idle]

\* A deployment with the provisioned keys and the default configuration.
InitMem ==
    /\ InitGateOff
    /\ InitProvisioned

\* The writing requests of the memory API served by the workers W, with
\* request inputs, fresh ids and clock movements drawn from the sets of I.
WriteNext(W, I) ==
    \E w \in W :
        \/ \E key \in I.keys, passed \in I.passed :
            \/ \E c \in I.contents, t \in I.types, sid \in I.sessions,
                  id \in I.ids, d \in I.ticks :
                   AddRequest(w, key, passed, c, t, sid, id, d)
            \/ \E id \in I.ids : DeleteRequest(w, key, passed, id)
            \/ \E id \in I.ids, c \in I.ucontents, g \in I.tags :
                   UpdateRequest(w, key, passed, id, c, g)
        \/ AddMeta(w) \/ AddMetaFail(w) \/ AddVecOk(w) \/ AddVecFail(w)
        \/ AddCompensate(w)
        \/ DelGet(w) \/ DelMeta(w) \/ DelVecOk(w) \/ DelVecFail(w)
        \/ UpdGet(w) \/ (\E d \in I.ticks : UpdMeta(w, d))
        \/ UpdVectorsOk(w) \/ UpdVectorsFail(w)
        \/ UpdPayloadOk(w) \/ UpdPayloadFail(w) \/ UpdReturn(w)
        \/ Return(w)

\* Semantic search.
SearchNext(W, I) ==
    \E w \in W :
        \/ \E key \in I.keys, passed \in I.passed, q \in I.queries, l \in I.limits,
              t \in I.qtypes, sid \in I.qsessions :
               SearchRequest(w, key, passed, q, l, t, sid)
        \/ SearchQuery(w) \/ SearchQueryFail(w) \/ SearchHydrate(w)
        \/ HitIncrement(w) \/ HitIncrementFail(w)

\* List, session history and stats.
ReadNext(W, I) ==
    \E w \in W :
        \/ \E key \in I.keys, passed \in I.passed :
            \/ \E t \in I.qtypes, l \in I.limits : ListRequest(w, key, passed, t, l)
            \/ \E sid \in I.qsessions \ {None}, l \in I.limits :
                   HistoryRequest(w, key, passed, sid, l)
            \/ StatsRequest(w, key, passed)
            \/ MyStatsRequest(w, key)
        \/ Scroll(w) \/ ScrollHydrate(w) \/ StatsRead(w)

MemNext(W, I) == WriteNext(W, I) \/ SearchNext(W, I) \/ ReadNext(W, I)

\* The cascading deletes served by the workers W, for tenants T and projects P.
CascadeNext(W, T, P) ==
    \E w \in W :
        \/ \E t \in T, p \in P : DeleteProjectRequest(w, p, t)
        \/ DeleteProjectTxn(w) \/ DeleteProjectClean(w)
        \/ \E t \in T : DeleteTenantRequest(w, t)
        \/ DeleteTenantCheck(w) \/ DeleteTenantTxn(w) \/ DeleteTenantTxnFail(w)
        \/ DeleteTenantStore(w) \/ DeleteTenantClean(w)

\* Two workers serve add, update, delete, search and the cascading deletes
\* concurrently.
ConcInputs ==
    [keys |-> {kA, kV}, passed |-> {"u1", "u2"}, ids |-> 1..MaxFragsSmall,
     ticks |-> {0}, contents |-> {"a"}, types |-> {"factual"},
     sessions |-> {"s1"}, ucontents |-> {"b"}, tags |-> {None},
     queries |-> {"a"}, limits |-> {2}, qtypes |-> {None}, qsessions |-> {"s1"}]

Next ==
    \/ WriteNext(Workers, ConcInputs)
    \/ SearchNext(Workers, ConcInputs)
    \/ CascadeNext(Workers, {1}, {2})

Spec == InitMem /\ [][Next]_vars

\* Two workers write one fragment id: adds, deletes, and updates whose new
\* contents differ.
UpdInputs ==
    [keys |-> {kA}, passed |-> {"u1"}, ids |-> 1..MaxFragsSmall,
     ticks |-> {0, 1}, contents |-> {"a"}, types |-> {"factual"},
     sessions |-> {"s1"}, ucontents |-> {"b", "c"}, tags |-> {None}]

NextUpd == WriteNext(Workers, UpdInputs)

SpecUpd == InitMem /\ [][NextUpd]_vars

\* One worker serves memory requests one after the other.
NextSeq == MemNext({"w1"},
            [keys |-> {kA, kV}, passed |-> {"u1", "u2"}, ids |-> FragIds, ticks |-> {0, 1},
             contents |-> {"a"}, types |-> {"factual"}, sessions |-> {"s1"},
             ucontents |-> {"b"}, tags |-> {None}, queries |-> {"a"}, limits |-> {2},
             qtypes |-> {None}, qsessions |-> {"s1"}])

SpecSeq == InitMem /\ [][NextSeq]_vars

\* One worker serves add, update, delete, list and stats one after
\* the other: fragments of two types, updates of every subset of the modelled
\* fields, lists with a limit below and at the number of fragments.
FragInputs ==
    [keys |-> {kA}, passed |-> {"u1", "u2"}, ids |-> FragIds, ticks |-> {0, 1},
     contents |-> {"a"}, types |-> {"factual", "preference"}, sessions |-> {"s1"},
     ucontents |-> {None, "b"}, tags |-> {None, <<"t">>},
     limits |-> {1, 2}]

NextFrag ==
    \/ WriteNext({"w1"}, FragInputs)
    \/ \E key \in FragInputs.keys, passed \in FragInputs.passed :
        \/ \E l \in FragInputs.limits : ListRequest("w1", key, passed, None, l)
        \/ StatsRequest("w1", key, passed)
        \/ DeleteReturned("w1", key, passed)
    \/ Scroll("w1") \/ ScrollHydrate("w1") \/ StatsRead("w1")

SpecFrag == InitMem /\ [][NextFrag]_vars

\* One worker, every key and every passed user id.
NextAdm == MemNext({"w1"},
            [keys |-> {kA, kU, kV, kE, kZ}, passed |-> {None, "", "u1", "u2"},
             ids |-> 1..MaxFragsSmall, ticks |-> {0},
             contents |-> {"a"}, types |-> {"factual"}, sessions |-> {"s1"},
             ucontents |-> {"b"}, tags |-> {None}, queries |-> {"a"}, limits |-> {2},
             qtypes |-> {None}, qsessions |-> {"s1"}])

SpecAdm == InitMem /\ [][NextAdm]_vars

\* An empty deployment: no tenant, no memory.
InitChan ==
    /\ InitGateOff
    /\ tenants = {}
    /\ projects = {}
    /\ api_keys = {}
    /\ issued = {}
    /\ nextTenant = 0
    /\ nextProject = 0
    /\ meta = {}
    /\ vec = {}
    /\ usedIds = {}
    /\ clock = 0
    /\ op = [w \in Workers |-> Idle]

TenantIds == 1..MaxTenants
ProjectIds == 1..MaxProjects
\* Secrets: the first 12 characters (the key_id) and the rest.
Secrets == {<<"ka", "x">>, <<"ka", "y">>, <<"kb", "x">>}

\* The channel API served by the workers W, with names N and bound users U.
ChanNext(W, N, U) ==
    \E w \in W :
        \/ \E n \in N : RegisterTenant(w, n)
        \/ \E t \in TenantIds, n \in N : CreateProjectRequest(w, t, n)
        \/ CreateProjectInsert(w)
        \/ \E t \in TenantIds, p \in ProjectIds, u \in U : GenerateKeyRequest(w, t, p, u)
        \/ \E key \in Secrets : GenerateKeyInsert(w, key)
        \/ \E key \in Secrets : RevokeKey(w, extract_key_id(key))
        \/ \E key \in Secrets : VerifyKey(w, key)
        \/ Return(w)

\* Two administrators manage channels concurrently.
NextChan ==
    \/ ChanNext(Workers, {"n1"}, {None, "u1"})
    \/ CascadeNext(Workers, TenantIds, ProjectIds)

SpecChan == InitChan /\ [][NextChan]_vars

\* One tenant with two projects, and the key kA issued for project 1.
InitDead ==
    /\ InitGateOff
    /\ tenants = {[id |-> 1, name |-> "n1"]}
    /\ projects = {[id |-> 1, tenant_id |-> 1, name |-> "n1"],
                   [id |-> 2, tenant_id |-> 1, name |-> "n2"]}
    /\ api_keys = {key_row(kA, 1, 1, None)}
    /\ issued = {[key |-> kA, tenant_id |-> 1, project_id |-> 1, user_id |-> None]}
    /\ nextTenant = 1
    /\ nextProject = 2
    /\ meta = {}
    /\ vec = {}
    /\ usedIds = {}
    /\ clock = 0
    /\ op = [w \in Workers |-> Idle]

\* One worker serves memory writes under the key kA while two administrators
\* revoke and verify keys, generate new ones (one of them with the key_id of
\* kA) and delete projects and the tenant.
DeadInputs ==
    [keys |-> {kA}, passed |-> {"u1"}, ids |-> 1..MaxFragsSmall,
     ticks |-> {0}, contents |-> {"a"}, types |-> {"factual"},
     sessions |-> {"s1"}, ucontents |-> {"b"}, tags |-> {None}]

NextDead ==
    \/ WriteNext({"w1"}, DeadInputs)
    \/ \E w \in Workers :
        \/ \E p \in ProjectIds : GenerateKeyRequest(w, 1, p, None)
        \/ \E key \in {<<"kA", "y">>, <<"kn", "x">>} : GenerateKeyInsert(w, key)
        \/ \E key \in {kA, <<"kn", "x">>} : RevokeKey(w, extract_key_id(key))
        \/ \E key \in {kA, <<"kA", "y">>, <<"kn", "x">>} : VerifyKey(w, key)
    \/ CascadeNext(Workers, {1}, ProjectIds)

SpecDead == InitDead /\ [][NextDead]_vars

\* Two tenants are registered, the first with a project; no key is issued.
InitRef ==
    /\ InitGateOff
    /\ tenants = {[id |-> 1, name |-> "n1"], [id |-> 2, name |-> "n2"]}
    /\ projects = {[id |-> 1, tenant_id |-> 1, name |-> "n1"]}
    /\ api_keys = {}
    /\ issued = {}
    /\ nextTenant = 2
    /\ nextProject = 1
    /\ meta = {}
    /\ vec = {}
    /\ usedIds = {}
    /\ clock = 0
    /\ op = [w \in Workers |-> Idle]

\* Two administrators create projects, generate keys for every pairing of a
\* tenant with a project, list keys, and delete projects and tenants,
\* concurrently.
NextRef ==
    \/ \E w \in Workers :
        \/ \E t \in {1, 2} : CreateProjectRequest(w, t, "n2")
        \/ CreateProjectInsert(w)
        \/ \E t \in {1, 2}, p \in ProjectIds : GenerateKeyRequest(w, t, p, None)
        \/ \E key \in {<<"ka", "x">>, <<"kb", "x">>} : GenerateKeyInsert(w, key)
        \/ \E p \in ProjectIds : ListKeys(w, p)
        \/ Return(w)
    \/ CascadeNext(Workers, {1, 2}, ProjectIds)

SpecRef == InitRef /\ [][NextRef]_vars

\* The requests the admission pipeline is checked with: memory paths with a
\* missing, a valid and an unknown key; channel paths with a missing, the
\* configured and a wrong administrator token; public paths with and
\* without a key.
Requests ==
    {[path |-> <<"v1", "memories">>, api_key |-> k, admin_token |-> None]
        : k \in {Absent, kA, kZ}}
    \cup {[path |-> <<"v1", "channels", "tenants">>, api_key |-> Absent, admin_token |-> t]
        : t \in {None, "s3cret", "bad"}}
    \cup {[path |-> p, api_key |-> k, admin_token |-> None]
        : p \in {<<"health">>}, k \in {Absent, kA}}
    \cup {[path |-> <<"docs">>, api_key |-> Absent, admin_token |-> None]}

\* The configurations: with or without an administrator token, a rate
\* limit and a Redis URL.
Configs ==
    [ADMIN_TOKEN : {"", "s3cret"}, RATE_LIMIT_PER_MINUTE : 0..MaxRpm, REDIS_URL : BOOLEAN]

\* A deployment with the provisioned keys and one of the configurations C.
InitConfigured(C) ==
    /\ vector_store = FALSE
    /\ config \in C
    /\ time = 0
    /\ windows = [c \in ClientIds |-> <<>>]
    /\ redis = [c \in ClientIds |-> {}]
    /\ history = [c \in ClientIds |-> <<>>]
    /\ InitProvisioned

\* Worker w passes the requests R through the middleware chain, up to
\* `checks` of an identity reaching the limiter, while time passes.
ChainNext(w, R, checks) ==
    \/ \E r \in R : Receive(w, r.path, r.api_key, r.admin_token, Host, checks)
    \/ AuthDispatch(w) \/ CorsDispatch(w)
    \/ LimitRedis(w) \/ LimitRedisFail(w) \/ LimitMemory(w)
    \/ Handler(w) \/ Return(w)
    \/ Tick

\* Every kind of request under every configuration, while another worker
\* may revoke the key kA.
InitGate == InitConfigured(Configs)

NextGate ==
    \/ ChainNext("w1", Requests, MaxChecksSmall)
    \/ RevokeKey("w2", extract_key_id(kA))

SpecGate == InitGate /\ [][NextGate]_vars

\* The limiter at work: a limit is configured, and the requests are those of
\* one key and of one address.
InitLimit == InitConfigured({c \in Configs : c.ADMIN_TOKEN /= "" /\ c.RATE_LIMIT_PER_MINUTE > 0})

NextLimit ==
    ChainNext("w1", {r \in Requests : r.path = <<"v1", "memories">> /\ r.api_key = kA}
                    \cup {r \in Requests : r.path = <<"health">> /\ r.api_key = Absent},
              MaxChecks)

SpecLimit == InitLimit /\ [][NextLimit]_vars

\* Two workers serve the requests of one key at the same time, with a limit
\* configured.
NextMutex ==
    \E w \in Workers :
        ChainNext(w, {r \in Requests : r.path = <<"v1", "memories">> /\ r.api_key = kA},
                  MaxChecks)

SpecMutex == InitLimit /\ [][NextMutex]_vars

\* Both limiters are fed the same requests of the same identities, with a
\* limit configured.
InitEquiv == InitConfigured({c \in Configs : c.ADMIN_TOKEN /= "" /\ c.RATE_LIMIT_PER_MINUTE > 0
                                             /\ c.REDIS_URL})

NextEquiv ==
    \/ \E c \in ClientIds : FeedBoth("w1", c)
    \/ Return("w1")
    \/ Tick

SpecEquiv == InitEquiv /\ [][NextEquiv]_vars

\* ------------------------------------------------------------ properties

\* No request is between two of its steps.
Quiescent == \A w \in Workers : op[w].pc \in {"idle", "done"}

\* A point whose id has no metadata row.
Orphan(id) == Point(id) /= {} /\ Row(id) = {}

ScopeAgree == \A p \in vec : \A r \in meta : r.id = p.id => ScopeOf(r) = ScopeOf(p)

OrphanOnlyByDelete ==
    \A id \in FragIds :
        (~Orphan(id) /\ Orphan(id)') =>
            \E w \in Workers :
                \/ op[w].pc = "del_meta" /\ op[w].id = id /\ op'[w].pc = "del_vec"
                \/ /\ op[w].pc = "add_vec" /\ op[w].frag.id = id
                   /\ op'[w].pc = "done" /\ Row(id) = {}

AddFailedAfterMeta(w) ==
    /\ op[w].pc = "done" /\ op[w].kind = "add" /\ op[w].status = 500
    /\ op[w].cause \in {"encode", "upsert"}

Hydrates(w) == op[w].pc = "s_hydrate" /\ op'[w].pc /= "s_hydrate"

\* C3: at the hydration of a search no error is raised, a hit whose id has no
\* metadata row at that time is dropped, a hit whose id has one is kept, and
\* every returned fragment is a hit that had a row at that time.
C3_NoOrphanReturned ==
    [][\A w \in Workers :
         Hydrates(w) =>
            LET items == op[w].items
                res == op'[w].results
            IN /\ op'[w].status /= 500
               /\ \A i \in 1..Len(res) :
                     /\ \E r \in meta : /\ r.id = res[i].id
                                        /\ ScopeOf(r) = ScopeOf(res[i])
                                        /\ r.created_at = res[i].created_at
                     /\ \E j \in 1..Len(items) : items[j].id = res[i].id
               /\ \A j \in 1..Len(items) :
                     (Row(items[j].id) /= {}) <=>
                         (\E i \in 1..Len(res) : res[i].id = items[j].id)]_vars

\* C3 witness: a search has answered 200 after its hydration dropped a hit.
C3_Witness ==
    \E w \in Workers :
        /\ op[w].pc = "done" /\ op[w].kind = "search" /\ op[w].status = 200
        /\ Len(op[w].items) > Len(op[w].results)
        /\ \E j \in 1..Len(op[w].items) : Orphan(op[w].items[j].id)

\* What a search, list or history answered with 200 returned lies in the
\* scope of the request, and so does the row of each returned id.
ReturnsOwnScope ==
    \A w \in Workers :
        (/\ op[w].pc = "done" /\ op[w].kind \in {"search", "list", "history"}
         /\ op[w].status = 200) =>
            \A i \in 1..Len(op[w].results) :
                /\ ScopeOf(op[w].results[i]) = OpScope(op[w])
                /\ \A m \in Row(op[w].results[i].id) : ScopeOf(m) = OpScope(op[w])

\* A step of a memory request writes, changes or removes only rows and points
\* of the scope of the request.
TouchesOwnScope ==
    \A w \in Workers :
        (op[w].pc \notin {"idle", "done"} /\ op'[w] /= op[w]) =>
            /\ \A r \in (meta \ meta') \cup (meta' \ meta) : ScopeOf(r) = OpScope(op[w])
            /\ \A p \in (vec \ vec') \cup (vec' \ vec) : ScopeOf(p) = OpScope(op[w])

\* C4: every fragment returned by search, list or history under scope s has
\* exactly s as its (tenant, project, user), and no request under s returns,
\* updates or deletes a fragment of another scope.
C4_ScopeIsolation == []ReturnsOwnScope /\ [][TouchesOwnScope]_vars

\* C4 witness: a list has returned fragments while both stores hold a
\* fragment of another user of the same project.
C4_Witness ==
    \E w \in Workers :
        /\ op[w].pc = "done" /\ op[w].kind = "list" /\ op[w].status = 200
        /\ op[w].results /= <<>>
        /\ \E p \in vec : /\ Row(p.id) /= {}
                          /\ p.project_id = op[w].project_id
                          /\ p.user_id /= op[w].user_id

\* The memory operations that take a user id from the request.
ScopedKinds == {"add", "search", "list", "update", "delete", "history", "stats"}

\* Worker w serves an authenticated request of one of those operations.
Scoped(w) ==
    /\ op[w].pc /= "idle" /\ op[w].kind \in ScopedKinds /\ op[w].status /= 401

\* The request was handed to the engine under an effective user.
Admitted(o) == "user_id" \in DOMAIN o

\* The request carries a user id other than the one its key is bound to.
Mismatch(o) == Truthy(o.bound) /\ Truthy(o.passed) /\ o.passed /= o.bound

\* C5: a request whose key has a bound user and which carries a different
\* user id is answered 403 by the route, for each of the seven operations:
\* it is never handed to the engine and its rejection changes no store.
C5_BoundKeyMismatch ==
    /\ [](\A w \in Workers :
            (Scoped(w) /\ Mismatch(op[w])) =>
                op[w].pc = "done" /\ op[w].status = 403 /\ ~Admitted(op[w]))
    /\ [][\A w \in Workers :
            (op[w].pc = "idle" /\ op'[w].pc /= "idle" /\ Scoped(w)' /\ Mismatch(op'[w]))
                => UNCHANGED memVars]_vars

\* C5 witness: an update under a key bound to u1 carrying u2 was rejected.
C5_Witness ==
    \E w \in Workers :
        /\ Scoped(w) /\ op[w].kind = "update" /\ op[w].status = 403
        /\ op[w].bound = "u1" /\ op[w].passed = "u2"

\* The three outcomes C6 lists.
ListedOutcome(o) ==
    \/ /\ Truthy(o.bound) /\ (~Truthy(o.passed) \/ o.passed = o.bound)
       /\ Admitted(o) /\ o.user_id = o.bound
    \/ /\ ~Truthy(o.bound) /\ Truthy(o.passed)
       /\ Admitted(o) /\ o.user_id = o.passed
    \/ /\ ~Truthy(o.bound) /\ ~Truthy(o.passed)
       /\ ~Admitted(o) /\ o.pc = "done" /\ o.status = 400

\* C6 as stated: every resolution is one of the three listed outcomes.
C6_Original == \A w \in Workers : Scoped(w) => ListedOutcome(op[w])

\* C6, amended: the resolution is one of four outcomes: the three listed ones,
\* or, for a bound user and a passed user id that differs from it, the
\* rejection 403.
C6_Resolution ==
    \A w \in Workers :
        Scoped(w) =>
            \/ ListedOutcome(op[w])
            \/ /\ Mismatch(op[w])
               /\ ~Admitted(op[w]) /\ op[w].pc = "done" /\ op[w].status = 403

\* C6 witness: an add under a key bound to u1 carrying u2 was rejected with 403.
C6_Witness ==
    \E w \in Workers :
        /\ Scoped(w) /\ op[w].kind = "add" /\ op[w].pc = "done" /\ op[w].status = 403
        /\ op[w].bound = "u1" /\ op[w].passed = "u2"

\* The active rows whose hash is the SHA-256 of the secret.
ActiveRows(key) == {k \in api_keys : k.key_hash = hash_key(key) /\ k.is_active}

\* C7: for every secret, verify returns a key iff the store holds an active
\* row whose key_hash is the SHA-256 of the secret; the key returned is that
\* row, and its tenant, project and user are those the secret was issued for.
C7_Verify ==
    \A s \in Secrets :
        /\ (verify_api_key(s) /= {}) <=> (ActiveRows(s) /= {})
        /\ \A k \in verify_api_key(s) :
              /\ ActiveRows(s) = {k}
              /\ \E i \in issued : /\ i.key = s /\ i.tenant_id = k.tenant_id
                                   /\ i.project_id = k.project_id
                                   /\ i.user_id = k.user_id

\* C7 witness: a verify has returned a key while the row of another secret
\* is inactive and that secret does not verify.
C7_Witness ==
    \E w \in Workers :
        /\ op[w].pc = "done" /\ op[w].kind = "verify_api_key" /\ op[w].result /= {}
        /\ verify_api_key(op[w].key) = op[w].result
        /\ \E s \in Secrets : /\ verify_api_key(s) = {}
                              /\ \E k \in api_keys : k.key_hash = hash_key(s)

\* The step in which worker w serves a revoke.
Revokes(w) ==
    op[w].pc = "idle" /\ op'[w].pc = "done" /\ op'[w].kind = "revoke_api_key"

\* C8 as stated: a revoke of a key that exists is never answered with an error.
C8_Original ==
    \A w \in Workers :
        (/\ op[w].pc = "done" /\ op[w].kind = "revoke_api_key"
         /\ \E k \in api_keys : k.key_id = op[w].key_id) => op[w].status = 200

RevokeOutcome ==
    \A w \in Workers :
        Revokes(w) =>
            LET kid == op'[w].key_id
            IN IF \E k \in api_keys : k.key_id = kid /\ k.is_active
               THEN /\ op'[w].status = 200
                    /\ \A k \in api_keys' : k.key_id = kid => ~k.is_active
                    /\ \A i \in issued :
                          extract_key_id(i.key) = kid => verify_api_key(i.key)' = {}
               ELSE /\ op'[w].status = 404
                    /\ api_keys' = api_keys

StaysRevoked ==
    \A k \in api_keys : ~k.is_active =>
        \A k2 \in api_keys' : k2.key_hash = k.key_hash => ~k2.is_active

\* C8, amended: the first revoke of an active key succeeds and from then on
\* verify of its secret is false; a second revoke changes nothing in the
\* store (it returns false) and the HTTP route answers it with 404.
C8_Revoke ==
    /\ [][RevokeOutcome /\ StaysRevoked]_vars
    /\ [](\A s \in Secrets :
            (\E k \in api_keys : k.key_hash = hash_key(s) /\ ~k.is_active)
                => verify_api_key(s) = {})

\* C8 witness: a revoke of a key whose row is already inactive was answered 404.
C8_Witness ==
    \E w \in Workers :
        /\ op[w].pc = "done" /\ op[w].kind = "revoke_api_key" /\ op[w].status = 404
        /\ \E k \in api_keys : k.key_id = op[w].key_id /\ ~k.is_active

\* The metadata store's delete_tenant has returned true for worker w.
TenantDeleted(w) ==
    /\ op[w].pc /= "idle" /\ op[w].kind = "delete_tenant"
    /\ \/ op[w].pc \in {"dt_store", "dt_clean"}
       \/ op[w].pc = "done" /\ op[w].status = 200

\* C9: once delete_tenant(t) has returned true, get_tenant(t) is absent,
\* list_projects(t) is empty, no active key has tenant_id t, and verify fails
\* for every secret issued under t.
C9_TenantCascade ==
    \A w \in Workers :
        TenantDeleted(w) =>
            LET t == op[w].tenant_id
            IN /\ get_tenant(t) = {}
               /\ list_projects(t) = {}
               /\ \A k \in api_keys : k.tenant_id = t => ~k.is_active
               /\ \A i \in issued : i.tenant_id = t => verify_api_key(i.key) = {}

\* C9 witness: delete_tenant has returned true for a tenant under which a
\* project-scoped and a user-scoped secret had been issued.
C9_Witness ==
    \E w \in Workers :
        /\ TenantDeleted(w) /\ op[w].pc = "done"
        /\ \E i, j \in issued : /\ i.tenant_id = op[w].tenant_id /\ i.user_id = None
                                /\ j.tenant_id = op[w].tenant_id /\ j.user_id = "u1"

\* What an observer can read about tenant t: its row is gone and nothing of
\* it is left.
Gone(t) ==
    /\ get_tenant(t) = {}
    /\ list_projects(t) = {}
    /\ \A k \in api_keys : k.tenant_id /= t
    /\ \A s \in Secrets : \A k \in verify_api_key(s) : k.tenant_id /= t

\* C10: no state shows the tenant row gone while one of its projects exists
\* or one of its keys verifies, and the transaction of delete_tenant either
\* changes nothing or removes the tenant with all its projects and keys in
\* one step.
C10_AtomicDelete ==
    /\ [](\A t \in TenantIds : get_tenant(t) = {} => Gone(t))
    /\ [][\A w \in Workers :
            (op[w].pc = "dt_txn" /\ \A v \in Workers \ {w} : op'[v] = op[v]) =>
                \/ UNCHANGED <<tenants, projects, api_keys>>
                \/ Gone(op[w].tenant_id)']_vars

\* C10 witness: the transaction has removed a tenant that had a project, and
\* a secret had been issued under it.
C10_Witness ==
    \E w \in Workers :
        /\ op[w].pc = "dt_clean" /\ op[w].todo /= {}
        /\ Gone(op[w].tenant_id)
        /\ \E i \in issued : i.tenant_id = op[w].tenant_id

\* The metadata store's delete_project has returned true for worker w.
ProjectDeleted(w) ==
    /\ op[w].pc /= "idle" /\ op[w].kind = "delete_project"
    /\ \/ op[w].pc = "dp_clean"
       \/ op[w].pc = "done" /\ op[w].status = 200

\* C11: once the project row of p is deleted, verify fails for every secret
\* issued under p, before and after the vector cleanup and whether the
\* cleanup succeeds, fails or raises; the cleanup step always ends the
\* deletion with success.
C11_ProjectCascade ==
    /\ [](\A w \in Workers :
            ProjectDeleted(w) =>
                \A i \in issued :
                    i.project_id = op[w].project_id => verify_api_key(i.key) = {})
    /\ [][\A w \in Workers :
            (op[w].pc = "dp_clean" /\ op'[w].pc /= "dp_clean") =>
                /\ op'[w].pc = "done" /\ op'[w].status = 200
                /\ api_keys' = api_keys /\ projects' = projects]_vars

\* C12: after a project or its tenant has been deleted, the row of every
\* secret issued under it is still stored, with is_active false, and the
\* project row is removed.
C12_SoftRevoke ==
    \A w \in Workers :
        /\ ProjectDeleted(w) =>
              /\ get_project(op[w].project_id) = {}
              /\ \A i \in issued : i.project_id = op[w].project_id =>
                    \E k \in api_keys : k.key_hash = hash_key(i.key) /\ ~k.is_active
        /\ TenantDeleted(w) =>
              \A i \in issued : i.tenant_id = op[w].tenant_id =>
                  \E k \in api_keys : k.key_hash = hash_key(i.key) /\ ~k.is_active

\* Worker w serves a request that goes through the middleware chain.
InChain(w) == op[w].pc /= "idle" /\ op[w].kind = "request"

\* The request of worker w has been handed to its route.
AtRoute(w) ==
    InChain(w) /\ (op[w].pc = "handler" \/ (op[w].pc = "done" /\ op[w].status = 200))

\* The step in which the middleware m handles the request of worker w.
Dispatches(w, m) == At(w) = m /\ op'[w] /= op[w]

\* C13: a request to a /v1/channels path is handed to its route only if an
\* administrator token is configured and the X-Admin-Token header equals
\* it; with no token configured the authentication middleware rejects every
\* such request, whatever header it carries.
C13_AdminGate ==
    /\ [](\A w \in Workers :
            (AtRoute(w) /\ is_channels(op[w].path)) =>
                config.ADMIN_TOKEN /= "" /\ op[w].admin_token = config.ADMIN_TOKEN)
    /\ [][\A w \in Workers :
            (/\ Dispatches(w, "ApiKeyAuthMiddleware") /\ is_channels(op[w].path)
             /\ config.ADMIN_TOKEN = "") =>
                op'[w].pc = "done" /\ op'[w].status \in {401, 403}]_vars

\* C13 witness: with no token configured, a channel request that carries a
\* token has been rejected.
C13_Witness ==
    \E w \in Workers :
        /\ InChain(w) /\ is_channels(op[w].path) /\ config.ADMIN_TOKEN = ""
        /\ Truthy(op[w].admin_token)
        /\ op[w].pc = "done" /\ op[w].status = 403

\* A path of the memory API: neither public nor a channel path.
is_memory(path) == ~is_public(path) /\ ~is_channels(path)

\* The scope a secret was issued for, as the middleware attaches it.
IssuedState(key) ==
    {[tenant_id |-> i.tenant_id, project_id |-> i.project_id, bound_user_id |-> i.user_id]
        : i \in {j \in issued : j.key = key}}

\* C14: the authentication middleware passes a memory-path request on only
\* if it carries an X-API-Key that verifies at that moment, and it attaches
\* the tenant, project and bound user of that key; a missing or
\* non-verifying key is answered 401 unauthorized. A request handed to its
\* route carries the scope its key was issued for.
C14_ApiKeyGate ==
    /\ [][\A w \in Workers :
            (Dispatches(w, "ApiKeyAuthMiddleware") /\ is_memory(op[w].path)) =>
                IF op[w].api_key /= Absent /\ verify_api_key(op[w].api_key) /= {}
                THEN /\ op'[w].pc /= "done"
                     /\ op'[w].state = IssuedState(op[w].api_key)
                     /\ Cardinality(op'[w].state) = 1
                ELSE /\ op'[w].pc = "done" /\ op'[w].status = 401
                     /\ op'[w].error = "unauthorized"]_vars
    /\ [](\A w \in Workers :
            (AtRoute(w) /\ is_memory(op[w].path)) =>
                /\ op[w].api_key /= Absent
                /\ op[w].state = IssuedState(op[w].api_key)
                /\ Cardinality(op[w].state) = 1)

\* C14 witness: a memory request is at its route with the scope of its key
\* attached, and the key has been revoked since it was verified.
C14_Witness ==
    \E w \in Workers :
        /\ AtRoute(w) /\ is_memory(op[w].path)
        /\ op[w].state = {[tenant_id |-> 1, project_id |-> 1, bound_user_id |-> None]}
        /\ verify_api_key(op[w].api_key) = {}

\* Middleware a occurs in the sequence, and before every occurrence of b.
Before(trace, a, b) ==
    \A i \in 1..Len(trace) : trace[i] = b => \E j \in 1..(i - 1) : trace[j] = a

\* The authentication middleware has checked the administrator token or the
\* API key of the request of worker w: it has handled a non-public request.
CredentialChecked(w) ==
    /\ InChain(w) /\ ~is_public(op[w].path)
    /\ \E i \in 1..Len(op[w].trace) : op[w].trace[i] = "ApiKeyAuthMiddleware"
    /\ At(w) /= "ApiKeyAuthMiddleware"

\* The limiter has taken its decision on the request of worker w.
Counted(w) == InChain(w) /\ op[w].limiter \in {"redis", "memory"}

\* C15: with a rate limit configured, the limiter sees every non-public
\* request before the credential check does: a request answered 429 has not
\* had its credential checked, and every non-public request that has been
\* answered, authenticated or not, was counted by the limiter.
C15_GateOrder ==
    \A w \in Workers :
        (InChain(w) /\ ~is_public(op[w].path) /\ config.RATE_LIMIT_PER_MINUTE > 0) =>
            /\ Before(op[w].trace, "RateLimiterMiddleware", "ApiKeyAuthMiddleware")
            /\ op[w].status = 429 => ~CredentialChecked(w)
            /\ op[w].pc = "done" => Counted(w)

\* C16: a request to a public path is never rejected: whatever the limiter
\* holds, its answer is that of its route.
C16_PublicBypass ==
    \A w \in Workers :
        (InChain(w) /\ is_public(op[w].path) /\ op[w].pc = "done") => op[w].status = 200

\* The step in which a limiter decides on the request of worker w.
Decides(w) == At(w) = "RateLimiterMiddleware" /\ ~Counted(w) /\ Counted(w)'

\* C17: on either limiter path, when all requests an identity has sent so
\* far lie within the last 60 seconds and were decided on the same path,
\* its next request is admitted if they are fewer than the limit N and is
\* answered 429 if they are N, whatever the timestamps, equal ones included.
C17_Boundary ==
    [][\A w \in Workers :
        Decides(w) =>
            LET h == history[client_id(op[w])]
                N == config.RATE_LIMIT_PER_MINUTE
            IN (\A i \in 1..Len(h) : /\ h[i].t > time - WINDOW
                                      /\ h[i].via = op'[w].limiter) =>
                   /\ Len(h) < N => op'[w].status /= 429
                   /\ Len(h) = N => op'[w].status = 429]_vars

\* C18: whatever an identity has sent before, if the limiter has not seen a
\* request of it for 60 seconds, its next request is admitted, on either
\* limiter path.
C18_Recovery ==
    [][\A w \in Workers :
        Decides(w) =>
            LET h == history[client_id(op[w])]
            IN (h /= <<>> /\ h[Len(h)].t + WINDOW <= time) =>
                   op'[w].status /= 429 /\ op'[w].pc /= "done"]_vars

\* C18 witness: an identity whose request was rejected has been admitted 60
\* seconds later.
C18_Witness ==
    \E c \in ClientIds :
        LET h == history[c]
        IN /\ Len(h) >= 2
           /\ ~h[Len(h) - 1].ok /\ h[Len(h)].ok
           /\ h[Len(h)].t >= h[Len(h) - 1].t + WINDOW

\* C19: an error of the counter store does not answer the request: the
\* request stays in the limiter, and the in-process limiter decides on it
\* from its own window, so that a request that met the error is answered
\* 429 only when that window is full.
C19_Fallback ==
    /\ [][\A w \in Workers :
            (InChain(w) /\ ~op[w].redis_error /\ InChain(w)' /\ op'[w].redis_error) =>
                /\ op'[w].pc = "chain" /\ op'[w].status = 0
                /\ op'[w].at = op[w].at /\ ~Counted(w)']_vars
    /\ [][\A w \in Workers :
            (Decides(w) /\ op[w].redis_error) =>
                LET kept == SelectSeq(windows[client_id(op[w])],
                                      LAMBDA t : t > time - WINDOW)
                IN /\ op'[w].limiter = "memory"
                   /\ op'[w].status = 429 <=> Len(kept) >= config.RATE_LIMIT_PER_MINUTE
                   /\ op'[w].status \in {0, 429}]_vars
    /\ [](\A w \in Workers :
            (InChain(w) /\ op[w].redis_error) =>
                /\ op[w].status \in {0, 200, 429}
                /\ op[w].status = 429 => op[w].limiter = "memory")

\* C19 witness: a request that met an error of the counter store has been
\* admitted by the in-process limiter and answered by its route, and
\* another one has been rejected by it.
C19_Witness ==
    /\ \E w \in Workers :
          InChain(w) /\ op[w].redis_error /\ op[w].pc = "done" /\ op[w].status = 200
    /\ \E c \in ClientIds : \E i \in 1..Len(history[c]) :
          history[c][i].via = "memory" /\ ~history[c][i].ok

\* The limiter's decision on the request of worker w was to reject it.
Rejected(w) ==
    /\ Counted(w)
    /\ LET h == history[client_id(op[w])] IN h /= <<>> /\ ~h[Len(h)].ok

\* C20: a request a limiter path has decided to reject is answered 429
\* rate_limited, and neither the credential check nor the route has been or
\* will be invoked for it.
C20_RejectFinal ==
    \A w \in Workers :
        Rejected(w) =>
            /\ op[w].pc = "done" /\ op[w].status = 429 /\ op[w].error = "rate_limited"
            /\ ~CredentialChecked(w)
            /\ \A i \in 1..Len(op[w].trace) : op[w].trace[i] /= "route"

\* C21: given the same requests of one identity, at the same times, the
\* in-process limiter and the distributed limiter take the same decision on
\* every one of them, those that follow a rejected request included.
C21_SameDecision ==
    \A w \in Workers :
        (op[w].pc = "done" /\ op[w].kind = "feed_both") => op[w].memory = op[w].redis

\* The count of memory type t in the stats s; a type without a row has no entry.
CountOf(s, t) == IF t \in DOMAIN s.by_type THEN s.by_type[t] ELSE 0

\* The memory types of the model.
MemoryTypes == {"factual", "preference"}

AddSucceeded(w) == op[w].pc = "done" /\ op[w].kind = "add" /\ op[w].status = 200

\* The ids a list of the scope of the request o returns under limit l.
Listed(o, l) ==
    {r.id : r \in Range(list_memories(o.tenant_id, o.project_id, o.user_id, None, l))}

\* The stats of the scope of o are those of s0 with one more fragment of type t.
StatsPlusOne(o, s0, t) ==
    LET s == get_user_stats(o.tenant_id, o.project_id, o.user_id)
    IN /\ s.total = s0.total + 1
       /\ CountOf(s, t) = CountOf(s0, t) + 1
       /\ \A u \in MemoryTypes \ {t} : CountOf(s, u) = CountOf(s0, u)

\* The statement of C22 as written: a list under every limit contains the id.
C22_AnyLimit ==
    \A w \in Workers :
        AddSucceeded(w) =>
            /\ \A l \in 1..MaxFrags : op[w].id \in Listed(op[w], l)
            /\ StatsPlusOne(op[w], op[w].stats0, op[w].memory_type)

\* C22: when an add of type t has succeeded under a scope, a list of that
\* scope under any limit not below the number of points the scope has in the
\* vector index contains the returned id, and the stats of the scope show
\* total one higher, by_type[t] one higher, every other by_type entry as before.
C22_AddVisible ==
    \A w \in Workers :
        AddSucceeded(w) =>
            LET o == op[w]
                n == Cardinality(build_filter(o.tenant_id, o.project_id, o.user_id,
                                              None, None))
            IN /\ \A l \in n..MaxFrags : o.id \in Listed(o, l)
               /\ StatsPlusOne(o, o.stats0, o.memory_type)

\* C22 witness: an add has succeeded in a scope that held a fragment of the
\* other type before.
C22_Witness ==
    \E w \in Workers :
        /\ AddSucceeded(w)
        /\ op[w].stats0.total = 1
        /\ CountOf(op[w].stats0, op[w].memory_type) = 0

\* A delete of the id an add had just returned has answered 200.
RoundTrip(w) ==
    /\ op[w].pc = "done" /\ op[w].kind = "delete" /\ op[w].status = 200
    /\ "stats0" \in DOMAIN op[w]

\* C23: when a successful add is followed by a successful delete of the
\* returned id under the same scope, the stats of the scope are those from
\* before the add and no list of the scope contains the id.
C23_RoundTrip ==
    \A w \in Workers :
        RoundTrip(w) =>
            /\ get_user_stats(op[w].tenant_id, op[w].project_id, op[w].user_id)
                    = op[w].stats0
            /\ \A l \in 1..MaxFrags : op[w].id \notin Listed(op[w], l)

\* C23 witness: such a round trip has ended in a scope that held a fragment
\* before the add.
C23_Witness ==
    \E w \in Workers : RoundTrip(w) /\ op[w].stats0.total = 1

\* The engine has answered a delete; cause tells the step that ended it:
\* "get" and "meta" end it before a row is deleted, "vector" and None after.
DeleteAnswered(w) ==
    /\ op[w].pc = "done" /\ op[w].kind = "delete" /\ "cause" \in DOMAIN op[w]

\* C24: a delete reports success exactly when the call deleted a metadata
\* row; it reports success also when the vector delete that follows the
\* deletion of the row fails.
C24_TrueIffRowDeleted ==
    \A w \in Workers :
        DeleteAnswered(w) =>
            (op[w].status = 200 <=> op[w].cause \notin {"get", "meta"})

\* Worker w is at the scope check of an update or a delete whose fragment is
\* stored under another scope than the one of the request.
ForeignMutation(w) ==
    /\ op[w].pc \in {"upd_get", "del_get"}
    /\ \E r \in Row(op[w].id) : ScopeOf(r) /= OpScope(op[w])

\* C25: an update or a delete of a fragment whose stored (tenant, project,
\* user) differs from the scope of the request answers not found and leaves
\* the metadata row and the vector point as they were.
C25_ScopeCheck ==
    [][\A w \in Workers :
         (ForeignMutation(w) /\ op'[w] /= op[w]) =>
            /\ op'[w].pc = "done" /\ op'[w].status = 404
            /\ meta' = meta
            /\ vec' = vec]_vars

\* C25 witness: an update or a delete has answered not found for a fragment
\* that both stores hold under another scope.
C25_Witness ==
    \E w \in Workers :
        /\ op[w].pc = "done" /\ op[w].kind \in {"update", "delete"}
        /\ op[w].status = 404 /\ op[w].cause = "get"
        /\ \E r \in Row(op[w].id) : ScopeOf(r) /= OpScope(op[w])
        /\ Point(op[w].id) /= {}

\* An update has answered 200: old is the row it loaded, result the row it
\* returned.
UpdateSucceeded(w) == op[w].pc = "done" /\ op[w].kind = "update" /\ op[w].status = 200

\* C26: every successful update, whatever fields it mentions (none included),
\* leaves updated_at later than it was, and no stored fragment has an
\* updated_at before its created_at.
C26_UpdatedAtAdvances ==
    /\ \A w \in Workers :
          UpdateSucceeded(w) => op[w].result.updated_at > op[w].old.updated_at
    /\ \A r \in meta : r.updated_at >= r.created_at

\* The fields of a fragment no update can name.
NonUpdatable ==
    {"id", "tenant_id", "project_id", "user_id", "memory_type", "session_id",
     "hit_count", "created_at"}

\* C27: after an update every updatable field the request does not mention,
\* and every field that cannot be updated, has the value it had before.
C27_Frame ==
    \A w \in Workers :
        UpdateSucceeded(w) =>
            LET o == op[w]
            IN /\ o.content = None => o.result.content = o.old.content
               /\ o.tags = None => o.result.tags = o.old.tags
               /\ \A f \in NonUpdatable : o.result[f] = o.old[f]

\* C27 witness: an update that names the tags and not the content has
\* changed the tags of a fragment.
C27_Witness ==
    \E w \in Workers :
        /\ UpdateSucceeded(w)
        /\ op[w].content = None /\ op[w].tags /= None
        /\ op[w].result.tags /= op[w].old.tags

\* C28: a fragment is stored with hit_count 0, and no step of a search, an
\* update or a hit-count increment lowers the hit_count of a stored fragment.
C28_HitCount ==
    [][\A n \in meta' :
         IF Row(n.id) = {}
         THEN n.hit_count = 0
         ELSE \A r \in Row(n.id) : n.hit_count >= r.hit_count]_vars

\* C28 witness: a fragment that a search has counted has been updated since.
C28_Witness ==
    \E r \in meta : r.hit_count > 0 /\ r.content = "b"

\* C29: no two tenants share a name and no two projects of one tenant share a
\* name: a create under a name already taken is rejected and inserts no row.
C29_UniqueNames ==
    /\ \A t1, t2 \in tenants : t1.name = t2.name => t1 = t2
    /\ \A p1, p2 \in projects :
          (p1.tenant_id = p2.tenant_id /\ p1.name = p2.name) => p1 = p2

\* The tenant of the key row exists, and so does its project, under that
\* tenant.
Refers(k) ==
    /\ get_tenant(k.tenant_id) /= {}
    /\ \E p \in get_project(k.project_id) : p.tenant_id = k.tenant_id

\* C30: a generate inserts a key row only for a tenant that exists and a
\* project that exists under that tenant, and answers with an error
\* otherwise; every active key refers to an existing tenant and to an
\* existing project of that tenant.
C30_KeyIntegrity ==
    /\ [](\A k \in api_keys : k.is_active => Refers(k))
    /\ [][\A w \in Workers :
            (op[w].pc = "idle" /\ op'[w].pc /= "idle"
             /\ op'[w].kind = "generate_api_key"
             /\ ~Refers([tenant_id |-> op'[w].tenant_id,
                          project_id |-> op'[w].project_id])) =>
                /\ op'[w].pc = "done" /\ op'[w].status = 400
                /\ api_keys' = api_keys]_vars

\* C30 witness: a generate for a tenant and an existing project of the other
\* tenant was answered with an error while a key of that project is active.
C30_Witness ==
    \E w \in Workers :
        /\ op[w].pc = "done" /\ op[w].kind = "generate_api_key" /\ op[w].status = 400
        /\ get_tenant(op[w].tenant_id) /= {}
        /\ \E p \in get_project(op[w].project_id) : p.tenant_id /= op[w].tenant_id
        /\ \E k \in api_keys : k.is_active /\ k.project_id = op[w].project_id

\* The columns of a listed key: identity, scope and state.
ListedColumns == {"key_id", "tenant_id", "project_id", "user_id", "is_active"}

\* A generate answers with the secret it has minted in that step.
MintsOnce ==
    \A w \in Workers :
        (op[w].pc = "gk_insert" /\ op'[w].pc = "done" /\ op'[w].status = 200) =>
            /\ op'[w].key \notin {i.key : i \in issued}
            /\ op'[w].key \in {i.key : i \in issued'}

\* A listing gives the key_id of every key row of the project.
ListsAll ==
    \A w \in Workers :
        (op[w].pc = "idle" /\ op'[w].pc = "done" /\ op'[w].kind = "list_api_keys") =>
            {item.key_id : item \in op'[w].result}
                = {k.key_id : k \in {r \in api_keys : r.project_id = op'[w].project_id}}

\* C31: the secret of a key is answered only by the generate that mints it;
\* no stored key row has a column for it (a row holds the key_id and the
\* SHA-256 of the secret), and a listing gives for each key of the project
\* its key_id, scope and is_active and neither the secret nor the hash.
C31_SecretConfined ==
    /\ [](\A k \in api_keys : "key" \notin DOMAIN k
                               /\ \E i \in issued : k.key_hash = hash_key(i.key))
    /\ [](\A w \in Workers :
            (op[w].pc = "done" /\ "key" \in DOMAIN op[w]) =>
                op[w].kind \in {"generate_api_key", "verify_api_key"})
    /\ [](\A w \in Workers :
            (op[w].pc = "done" /\ op[w].kind = "list_api_keys") =>
                \A item \in op[w].result : DOMAIN item = ListedColumns)
    /\ [][MintsOnce /\ ListsAll]_vars

\* C31 witness: a listing has returned a key of a project for which a secret
\* was minted.
C31_Witness ==
    \E w \in Workers :
        /\ op[w].pc = "done" /\ op[w].kind = "list_api_keys"
        /\ op[w].result /= {}
        /\ \E i \in issued : i.project_id = op[w].project_id

\* Project p is not a project of tenant t: it does not exist, or another
\* tenant owns it.
NotOwned(p, t) ==
    \/ get_project(p) = {}
    \/ \E r \in get_project(p) : r.tenant_id /= t

\* C32: a delete_project(p, t) for a project that does not exist or that
\* another tenant owns answers not found in one step: the project rows and
\* the key rows stay as they are and no vector cleanup is started.
C32_WrongTenant ==
    [][\A w \in Workers :
         (/\ op[w].pc = "idle" /\ op'[w].pc /= "idle"
          /\ op'[w].kind = "delete_project"
          /\ NotOwned(op'[w].project_id, op'[w].tenant_id)) =>
            /\ op'[w].pc = "done" /\ op'[w].status = 404
            /\ projects' = projects
            /\ api_keys' = api_keys
            /\ vec' = vec /\ vector_store' = vector_store]_vars

\* C32 witness: a delete under the wrong tenant was answered not found while
\* the project exists and a key of it is active.
C32_Witness ==
    \E w \in Workers :
        /\ op[w].pc = "done" /\ op[w].kind = "delete_project" /\ op[w].status = 404
        /\ \E r \in get_project(op[w].project_id) : r.tenant_id /= op[w].tenant_id
        /\ \E k \in api_keys : k.project_id = op[w].project_id /\ k.is_active

\* C33: when no request is being served, every fragment held by both stores
\* has the same content in its vector payload as in its metadata row, and a
\* list returns each fragment with the content of its metadata row.
C33_ContentAgrees ==
    Quiescent =>
        /\ \A r \in meta : \A p \in Point(r.id) : p.content = r.content
        /\ \A r \in meta :
              \A x \in Range(list_memories(r.tenant_id, r.project_id, r.user_id,
                                            None, MaxFrags)) :
                  x.id = r.id => x.content = r.content

\* The embedding call of the add served by worker w has failed.
EncodeFailed(w) ==
    \/ op[w].pc = "add_comp" /\ op[w].cause = "encode"
    \/ op[w].pc = "done" /\ op[w].kind = "add" /\ op[w].status = 500
          /\ op[w].cause = "encode"

\* The id of the fragment the add of worker w was to store.
AddId(w) == IF op[w].pc = "add_comp" THEN op[w].frag.id ELSE op[w].id

\* C34: when the embedding call of an add has failed, neither store holds
\* anything for the new id at any step of the add, so that no stats read by
\* another request counts the fragment.
C34_NothingWritten ==
    \A w \in Workers :
        EncodeFailed(w) =>
            /\ Row(AddId(w)) = {}
            /\ Point(AddId(w)) = {}

\* C35: an add whose vector upsert failed after the metadata write answers
\* with the error kind vector_write_failed.
C35_ErrorKind ==
    \A w \in Workers :
        (AddFailedAfterMeta(w) /\ op[w].cause = "upsert") =>
            op[w].error = "vector_write_failed"

\* A step of the loop over the results of a search: the results stay as they
\* are, the search does not fail, and no row but the one of the current
\* result changes, that one by one hit at most.
CountsOnlyHit ==
    \A w \in Workers :
        (op[w].pc = "s_hits" /\ op'[w] /= op[w]) =>
            LET id == op[w].results[op[w].i].id
            IN /\ op'[w].pc = "done" => op'[w].status = 200
               /\ op'[w].results = op[w].results
               /\ {r.id : r \in meta'} = {r.id : r \in meta}
               /\ \A r \in meta :
                     \/ r \in meta'
                     \/ r.id = id /\ [r EXCEPT !.hit_count = @ + 1] \in meta'

\* A search has returned results.
SearchReturned(w) ==
    /\ op[w].pc = "done" /\ op[w].kind = "search" /\ op[w].status = 200
    /\ op[w].results /= <<>>

\* C36: an increment of hit_count that fails neither fails the search nor
\* changes the results it returns; when none has failed, the search has
\* raised hit_count by exactly 1 for every returned id, and it changes the
\* row of no other fragment.
C36_BestEffort ==
    /\ [][CountsOnlyHit]_vars
    /\ [](\A w \in Workers :
            (SearchReturned(w) /\ op[w].misses = 0) =>
                \A i \in 1..Len(op[w].results) :
                    \A r \in Row(op[w].results[i].id) :
                        r.hit_count = op[w].results[i].hit_count + 1)

\* C36 witness: a search has returned its results after an increment failed,
\* and the fragment's count is what it was.
C36_Witness ==
    \E w \in Workers :
        /\ SearchReturned(w) /\ op[w].misses > 0
        /\ \E i \in 1..Len(op[w].results) :
              \E r \in Row(op[w].results[i].id) :
                  r.hit_count = op[w].results[i].hit_count

\* C37: when two updates of one fragment id have both answered 200, the row,
\* the vector and the payload content of that fragment are those left by the
\* two updates run one after the other in some order (the contents of the
\* later one, in both stores), and the two updated_at values written differ.
BothUpdated(v, w) ==
    /\ v /= w
    /\ op[v].pc = "done" /\ op[v].kind = "update" /\ op[v].status = 200
    /\ op[w].pc = "done" /\ op[w].kind = "update" /\ op[w].status = 200
    /\ op[v].id = op[w].id

\* The fragment is as the update of worker last left it, in both stores.
LeftBy(last) ==
    /\ \A r \in Row(op[last].id) : r.content = op[last].content
    /\ \A p \in Point(op[last].id) :
          /\ p.content = op[last].content
          /\ p.vector = encode(op[last].content)

SerialOutcome ==
    \A v, w \in Workers : BothUpdated(v, w) => (LeftBy(v) \/ LeftBy(w))

DistinctStamps ==
    \A v, w \in Workers : BothUpdated(v, w) => op[v].at /= op[w].at

C37_Serialized == SerialOutcome /\ DistinctStamps

\* The timestamps of the requests of identity c the in-process limiter has
\* admitted, in the order of their admission.
AdmittedStamps(c) ==
    LET hs == SelectSeq(history[c], LAMBDA h : h.via = "memory" /\ h.ok)
    IN [i \in 1..Len(hs) |-> hs[i].t]

\* The times at which the in-process limiter has checked identity c.
MemoryChecks(c) ==
    LET hs == SelectSeq(history[c], LAMBDA h : h.via = "memory")
    IN [i \in 1..Len(hs) |-> hs[i].t]

\* No more than N of the requests of c admitted by the in-process limiter
\* fall into one window of 60 seconds.
AtMostN(c) ==
    LET a == AdmittedStamps(c)
    IN \A i \in 1..Len(a) :
          Cardinality({j \in 1..Len(a) : a[j] > a[i] - WINDOW /\ a[j] <= a[i]})
              <= config.RATE_LIMIT_PER_MINUTE

\* No admission is lost: the list of c holds the timestamp of every request
\* admitted within the window of the latest check, once each.
NothingLost(c) ==
    LET m == MemoryChecks(c)
    IN m /= <<>> =>
          windows[c] = SelectSeq(AdmittedStamps(c), LAMBDA t : t > m[Len(m)] - WINDOW)

\* C38: requests of one identity served at the same time pass the in-process
\* limiter one after the other: each works on the list the one before it
\* left, so no admission is lost, and no more than N requests of the identity
\* are admitted within any 60 seconds.
C38_Atomic == \A c \in ClientIds : AtMostN(c) /\ NothingLost(c)

\* C38 witness: two requests of one key are in flight at the same time, both
\* have passed the in-process limiter at the same instant, one was admitted
\* and the other rejected.
C38_Witness ==
    /\ \A w \in Workers : op[w].pc /= "idle" /\ op[w].kind = "request"
                            /\ op[w].limiter = "memory" /\ op[w].api_key = kA
    /\ op["w1"].status = 429 /\ op["w2"].status /= 429
    /\ Len(history[kA]) = 2
    /\ history[kA][1].t = history[kA][2].t
    /\ history[kA][1].ok /\ ~history[kA][2].ok

\* How often the value x occurs in the sequence q.
Occurrences(q, x) == Cardinality({i \in 1..Len(q) : q[i] = x})

\* Every timestamp stored for c is that of a request the in-process limiter
\* admitted, stored no more often than such requests were admitted.
StoredAreAdmitted(c) ==
    \A i \in 1..Len(windows[c]) :
        Occurrences(windows[c], windows[c][i]) <=
            Occurrences(AdmittedStamps(c), windows[c][i])

\* A check of the in-process limiter that rejects adds no timestamp.
RejectionNotRecorded ==
    \A c \in ClientIds :
        (/\ Len(history'[c]) = Len(history[c]) + 1
         /\ history'[c][Len(history'[c])].via = "memory"
         /\ ~history'[c][Len(history'[c])].ok) =>
            /\ Len(windows'[c]) <= Len(windows[c])
            /\ \A i \in 1..Len(windows'[c]) :
                  Occurrences(windows'[c], windows'[c][i]) <=
                      Occurrences(windows[c], windows'[c][i])

\* C39: the in-process limiter does not record a request it rejects: the
\* list of an identity never holds more than N timestamps, and each of them
\* is the timestamp of an admitted request.
C39_OnlyAdmitted ==
    /\ [](\A c \in ClientIds :
            /\ Len(windows[c]) <= config.RATE_LIMIT_PER_MINUTE
            /\ StoredAreAdmitted(c))
    /\ [][RejectionNotRecorded]_vars

\* C39 witness: the in-process limiter has rejected a request of an identity
\* whose list is full.
C39_Witness ==
    \E c \in ClientIds :
        /\ Len(windows[c]) = config.RATE_LIMIT_PER_MINUTE
        /\ \E i \in 1..Len(history[c]) :
              history[c][i].via = "memory" /\ ~history[c][i].ok

\* A secret that was issued and does not verify (what verify returns for it
\* is no key) stays that way in every step.
StaysDead ==
    \A i \in issued : verify_api_key(i.key) = {} => verify_api_key(i.key)' = {}

\* A verify that answered no key for an issued secret.
SawDead(w) ==
    /\ op[w].pc = "done" /\ op[w].kind = "verify_api_key"
    /\ op[w].result = {}
    /\ \E i \in issued : i.key = op[w].key

\* C40: once verify of an issued secret has returned no key (its key was
\* revoked, or removed with its project or tenant), no channel or memory
\* operation makes verify of that secret return a key again.
C40_NoReactivation == [][StaysDead]_vars

\* C40 witness: verify has returned no key for the secret kA after its
\* project was deleted, and a new key with the key_id of kA has been issued
\* since.
C40_Witness ==
    /\ \E w \in Workers : SawDead(w) /\ op[w].key = kA
    /\ \A k \in api_keys : k.key_hash /= hash_key(kA)
    /\ \E k \in api_keys : k.key_id = extract_key_id(kA) /\ k.is_active

====
